---- MODULE Spec2Model ----
(***************************************************************************)
(* StatusBeacon probe: the check pipeline of the two probe builds kept in  *)
(* the repository.                                                         *)
(*   "dns"  : the JavaScript probe (DNS resolve -> cookies -> request ->   *)
(*            end handler -> followRedirects), src/unnamed/part_000        *)
(*            lines 364-1001;                                              *)
(*   "ts"   : the TypeScript probe (followRedirects -> assembly),          *)
(*            src/probe.js.                                                *)
(* Both share dnsMonitoring.js and the redirect tracker / cookie jar of    *)
(* src/unnamed/part_002.  One check is in flight at a time; every await of *)
(* the code is a point where the model waits for a network event.          *)
(***************************************************************************)
EXTENDS Integers, Sequences, FiniteSets, TLC

\* ------------------------------------------------------------------ bounds
\* followRedirects' maxRedirects (MAX_REDIRECTS is 10 in the source); scaled
\* so that a chain can reach the limit inside the URL space below.
MaxHops == 3

\* ------------------------------------------------------- values and inputs
NoStr == "none"
\* JavaScript null / undefined of a numeric field (statusCode: null)
NullStatus == 0 - 1

ImplDns == "dns"
ImplTs == "ts"
Impls == {ImplDns, ImplTs}

Schemes == {"http:"}
Hosts == {"a.test", "b.test"}
Paths == {"/", "/x"}
ValidUrls == [scheme : Schemes, host : Hosts, path : Paths]
\* a string `new URL()` rejects
BadUrl == [scheme |-> "", host |-> "", path |-> "not a url"]
\* url absent from the request body
NoUrl == [scheme |-> "", host |-> "", path |-> ""]
StartUrl == [scheme |-> "http:", host |-> "a.test", path |-> "/"]

\* a localized landing page some redirects point to
GeoUrls == {[scheme |-> "http:", host |-> "a.test", path |-> "/de/"]}
GeoLocation == [kind |-> "abs", scheme |-> "http:", host |-> "a.test", path |-> "/de/"]

Parseable(u) == u \in ValidUrls \cup GeoUrls

\* Location header values: absolute, protocol-relative, path-relative, absent
NoLocation == [kind |-> "none", scheme |-> "", host |-> "", path |-> ""]
AbsLocations ==
  {[kind |-> "abs", scheme |-> u.scheme, host |-> u.host, path |-> u.path] : u \in {StartUrl} \cup GeoUrls}
ProtoRelLocations == {[kind |-> "protorel", scheme |-> "", host |-> "b.test", path |-> "/"]}
RelLocations == {[kind |-> "rel", scheme |-> "", host |-> "", path |-> "/x"]}
Locations == AbsLocations \cup ProtoRelLocations \cup RelLocations

REDIRECT_STATUS_CODES == {301, 302, 303, 307, 308}
MAX_REDIRECTS == MaxHops

RedirectAnswers == {301, 302}
\* elapsed milliseconds the model draws from
Latencies == {1}
TcpLatencies == {1, 2}
\* error.message of a failed request, as words; the second one is a
\* connection-level refusal whose text names a block and a WAF vendor
NetErrors == {<<"connect", "ECONNREFUSED">>, <<"Access", "Denied", "by", "Sucuri">>}
\* undefined / empty body
NoBody == << >>
BodyOk == <<"ok">>
BodyChallenge == <<"Just", "a", "moment">>
BodyDenied == <<"Access", "Denied">>
BodyTooMany == <<"Too", "Many", "Requests">>
BodySucuri == <<"Access", "Denied", "-", "Sucuri", "Website", "Firewall">>
Bodies == {NoBody, BodyOk, BodyChallenge, BodyDenied, BodyTooMany, BodySucuri}

\* -------------------------------------------------- redirect tracker (pure)
\* resolveRedirectUrl: absolute as is, protocol-relative on the current
\* scheme, anything else resolved against the current URL
resolveRedirectUrl(currentUrl, location) ==
  IF location.kind = "abs"
    THEN [scheme |-> location.scheme, host |-> location.host, path |-> location.path]
  ELSE IF location.kind = "protorel"
    THEN [scheme |-> currentUrl.scheme, host |-> location.host, path |-> location.path]
  ELSE [scheme |-> currentUrl.scheme, host |-> currentUrl.host, path |-> location.path]

\* what performSingleRequest resolves with
\* (the body of a redirect answer is drained unread: body stays undefined)
HopResponse(code, loc, body, ms) ==
  [statusCode |-> code, location |-> loc, error |-> NoStr, responseTimeMs |-> ms,
   body |-> IF code \in REDIRECT_STATUS_CODES THEN NoBody ELSE body]
HopFailure(msg, ms) ==
  [statusCode |-> 0, location |-> NoLocation, error |-> msg, responseTimeMs |-> ms,
   body |-> NoBody]
NoResponse == [statusCode |-> NullStatus, location |-> NoLocation, error |-> NoStr,
               responseTimeMs |-> 0, body |-> NoBody]

Hop(url, h) ==
  [url |-> url, statusCode |-> h.statusCode, location |-> h.location,
   responseTimeMs |-> h.responseTimeMs]

\* the local variables of followRedirects
FrInit(initialUrl) ==
  [redirectChain |-> << >>, visitedUrls |-> {}, currentUrl |-> initialUrl,
   redirectCount |-> 0, totalTime |-> 0]

NoFr == FrInit(NoUrl)

\* the objects followRedirects returns (absent keys are FALSE / NoStr / null)
FrLoop(f) ==
  [redirectCount |-> f.redirectCount, finalUrl |-> f.currentUrl,
   redirectChain |-> f.redirectChain, isLoop |-> TRUE, loopDetectedAt |-> f.currentUrl,
   totalRedirectTime |-> f.totalTime, finalStatusCode |-> NullStatus,
   hasFinalResponse |-> FALSE, finalResponse |-> NoResponse,
   noLocationHeader |-> FALSE, maxRedirectsExceeded |-> FALSE, error |-> NoStr]
FrFinal(f, h) ==
  [redirectCount |-> f.redirectCount, finalUrl |-> f.currentUrl,
   redirectChain |-> f.redirectChain, isLoop |-> FALSE, loopDetectedAt |-> NoUrl,
   totalRedirectTime |-> f.totalTime, finalStatusCode |-> h.statusCode,
   hasFinalResponse |-> TRUE, finalResponse |-> h,
   noLocationHeader |-> FALSE, maxRedirectsExceeded |-> FALSE, error |-> NoStr]
FrNoLocation(f, h) ==
  [redirectCount |-> f.redirectCount, finalUrl |-> f.currentUrl,
   redirectChain |-> f.redirectChain, isLoop |-> FALSE, loopDetectedAt |-> NoUrl,
   totalRedirectTime |-> f.totalTime, finalStatusCode |-> h.statusCode,
   hasFinalResponse |-> TRUE, finalResponse |-> h,
   noLocationHeader |-> TRUE, maxRedirectsExceeded |-> FALSE,
   error |-> "Redirect status but no Location header"]
FrMax(f) ==
  [redirectCount |-> f.redirectCount, finalUrl |-> f.currentUrl,
   redirectChain |-> f.redirectChain, isLoop |-> FALSE, loopDetectedAt |-> NoUrl,
   totalRedirectTime |-> f.totalTime, finalStatusCode |-> NullStatus,
   hasFinalResponse |-> FALSE, finalResponse |-> NoResponse,
   noLocationHeader |-> FALSE, maxRedirectsExceeded |-> TRUE,
   error |-> "Maximum redirects exceeded"]
NoFrResult == FrMax(NoFr)

\* variant: off by one in the loop test
FrContinueInclusive(f, maxRedirects) == f.redirectCount <= maxRedirects

\* the `while (redirectCount < maxRedirects)` test
FrContinue(f, maxRedirects) == f.redirectCount < maxRedirects

\* top of the loop body up to the await: loop test, loop detection, visit.
\* "loop" / "max" return at once, "request" awaits performSingleRequest.
FrLoopHead(f, maxRedirects) ==
  IF ~FrContinue(f, maxRedirects)
    THEN [next |-> "max", fr |-> f, result |-> FrMax(f)]
  ELSE IF f.currentUrl \in f.visitedUrls
    THEN [next |-> "loop", fr |-> f, result |-> FrLoop(f)]
  ELSE [next |-> "request",
        fr |-> [f EXCEPT !.visitedUrls = @ \cup {f.currentUrl}],
        result |-> NoFrResult]

\* variant: only the time of the last hop is counted
FrAfterHopLastTime(f, h, maxRedirects) ==
  LET f1 == [f EXCEPT !.redirectChain = Append(@, Hop(f.currentUrl, h)),
                      !.totalTime = h.responseTimeMs]
  IN IF h.statusCode \notin REDIRECT_STATUS_CODES
       THEN [next |-> "final", fr |-> f1, result |-> FrFinal(f1, h)]
     ELSE IF h.location = NoLocation
       THEN [next |-> "noloc", fr |-> f1, result |-> FrNoLocation(f1, h)]
     ELSE FrLoopHead([f1 EXCEPT !.currentUrl = resolveRedirectUrl(f.currentUrl, h.location),
                                !.redirectCount = @ + 1], maxRedirects)

\* rest of the loop body once the hop has been answered, then the next loop
\* head
FrAfterHop(f, h, maxRedirects) ==
  LET f1 == [f EXCEPT !.redirectChain = Append(@, Hop(f.currentUrl, h)),
                      !.totalTime = @ + h.responseTimeMs]
  IN IF h.statusCode \notin REDIRECT_STATUS_CODES
       THEN [next |-> "final", fr |-> f1, result |-> FrFinal(f1, h)]
     ELSE IF h.location = NoLocation
       THEN [next |-> "noloc", fr |-> f1, result |-> FrNoLocation(f1, h)]
     ELSE FrLoopHead([f1 EXCEPT !.currentUrl = resolveRedirectUrl(f.currentUrl, h.location),
                                !.redirectCount = @ + 1], maxRedirects)

\* ------------------------------------------------------------ DNS resolver
KNOWN_HIJACK_IPS == {"0.0.0.0", "127.0.0.1", "127.0.0.53", "::1", "198.105.244.11", "198.105.254.11"}

\* resolver answers the model draws from
CleanV4 == <<"93.184.216.34">>
SinkholeV4 == <<"93.184.216.34", "0.0.0.0">>
LoopbackV4 == <<"127.0.0.2">>
CleanV6 == <<"2606:2800::1">>
V4Answers == {CleanV4, SinkholeV4, LoopbackV4}
V6Answers == {CleanV6}
NoIps == << >>
\* err.message of a rejected resolve4 / resolve6
Dns4Errors == {"queryA ENOTFOUND"}
Dns6Errors == {"queryAaaa ENODATA"}
\* `resolveDns(hostname, 5000)`: the timeout of one resolver query, in ms
DnsTimeout == 5000
DnsTimeoutError == "DNS timeout after " \o ToString(DnsTimeout) \o "ms"
\* DNS_CACHE_TTL, in ms
DNS_CACHE_TTL == 60000

IpsOf(ips) == {ips[i] : i \in 1..Len(ips)}
StartsWith127(ip) == ip \in {"127.0.0.1", "127.0.0.53", "127.0.0.2"}
IsPrivateIp(ip) == ip \in {"10.0.0.1", "192.168.1.1"}
HostnameIsLocal(hostname) == hostname \in {"localhost"}
HostnameIsPublicDomain(hostname) == hostname \in {"www.google.com"}

detectDnsHijacking(hostname, ips) ==
  IF \E ip \in IpsOf(ips) : ip \in KNOWN_HIJACK_IPS
    THEN [hijacked |-> TRUE, reason |-> "DNS returned known sinkhole IP"]
  ELSE IF ~HostnameIsLocal(hostname) /\ \E ip \in IpsOf(ips) : StartsWith127(ip) \/ ip = "::1"
    THEN [hijacked |-> TRUE, reason |-> "DNS returned localhost IP for external domain"]
  ELSE IF HostnameIsPublicDomain(hostname) /\ \E ip \in IpsOf(ips) : IsPrivateIp(ip)
    THEN [hijacked |-> TRUE, reason |-> "DNS returned private IP for public domain"]
  ELSE [hijacked |-> FALSE, reason |-> NoStr]

\* extractHostname: the URL's hostname, or the string itself when it does
\* not parse
extractHostname(url) == IF Parseable(url) THEN url.host ELSE url.path

DnsCached(hostname, ips) ==
  [success |-> TRUE, ips |-> ips, responseTimeMs |-> 0, cached |-> TRUE,
   hijacked |-> detectDnsHijacking(hostname, ips).hijacked,
   hijackReason |-> detectDnsHijacking(hostname, ips).reason, error |-> NoStr]
DnsFresh(hostname, ips, ms) ==
  [success |-> TRUE, ips |-> ips, responseTimeMs |-> ms, cached |-> FALSE,
   hijacked |-> detectDnsHijacking(hostname, ips).hijacked,
   hijackReason |-> detectDnsHijacking(hostname, ips).reason, error |-> NoStr]
DnsFailed(msg, ms) ==
  [success |-> FALSE, ips |-> NoIps, responseTimeMs |-> ms, cached |-> FALSE,
   hijacked |-> FALSE, hijackReason |-> NoStr, error |-> msg]
NoDns == DnsFailed(NoStr, 0)

\* an entry of dnsCache; its timestamp is kept as the entry's age,
\* Date.now() - timestamp
NoEntry == [ips |-> NoIps, age |-> 0]
\* cacheDnsResult
cacheDnsResult(cache, hostname, ips) == [cache EXCEPT ![hostname] = [ips |-> ips, age |-> 0]]
\* variant: an entry lives one millisecond longer than its TTL
ExpiredLate(entry) == entry.age > DNS_CACHE_TTL + 1
\* getCachedDns: `age > cached.ttl`
Expired(entry) == entry.age > DNS_CACHE_TTL
\* getCachedDns: the ips served from the cache, NoIps for null
getCachedDns(cache, hostname) ==
  IF cache[hostname] = NoEntry \/ Expired(cache[hostname]) THEN NoIps ELSE cache[hostname].ips
\* getCachedDns: an expired entry is deleted by the lookup
CacheAfterLookup(cache, hostname) ==
  IF cache[hostname] # NoEntry /\ Expired(cache[hostname])
    THEN [cache EXCEPT ![hostname] = NoEntry] ELSE cache
\* variant: every answer is cached
ShouldCacheAlways(d) == TRUE
\* resolveDns: `useCache && !hijackCheck.hijacked`
ShouldCache(d) == ~d.hijacked
\* variant: the error of the IPv6 query is reported
BothFailedLast(err4, err6) == err6
\* resolveDns, both queries failed: `throw err` rethrows the IPv4 error
BothFailed(err4, err6) == err4

\* the time that passes between two checks, in ms, and the age up to which
\* the entries are followed
ElapseSteps == {DNS_CACHE_TTL, DNS_CACHE_TTL + 1}
MaxAge == DNS_CACHE_TTL + 1

\* ------------------------------------------------------------ cookie jar
\* cookieTtlSeconds of the requests that enable cookies
CookieTtlSeconds == 60
\* a cookie store: lastUsed is kept as the idle time Date.now() - lastUsed,
\* jar is the set of cookies the CookieJar holds
NoStore == [exists |-> FALSE, idle |-> 0, ttl |-> 0, jar |-> {}]
\* getCookieJar: a new store gets the ttl and an empty jar, an existing one a
\* new lastUsed
getCookieJar(store, ttl) ==
  IF store = NoStore THEN [exists |-> TRUE, idle |-> 0, ttl |-> ttl, jar |-> {}]
  ELSE [store EXCEPT !.idle = 0]

\* A Set-Cookie header value is <<key, value>> ("key=value"); a value of
\* any other length has no key-value pair and does not parse.  The header
\* list of a response without Set-Cookie is empty.
SessionCookie == <<"sid", "a">>
RenewedCookie == <<"sid", "b">>
ThemeCookie == <<"theme", "dark">>
GarbageCookie == <<"=">>
NoSetCookie == << >>
\* the value of a Cookie header: the key-value pairs it lists; none is null
NoCookieHeader == {}
\* jar.setCookie(header, url): a header that does not parse is rejected (the
\* caller logs it); a cookie replaces the one of the same key and domain
setCookie(jar, header, url) ==
  IF Len(header) # 2 THEN jar
  ELSE {c \in jar : ~(c.key = header[1] /\ c.domain = url.host)}
         \cup {[key |-> header[1], value |-> header[2], domain |-> url.host]}
\* jar.getCookies(url): the cookies of the URL's host
getCookies(jar, url) == {c \in jar : c.domain = url.host}
RECURSIVE SetCookies(_, _, _)
\* the loop of storeCookies over the headers
SetCookies(jar, headers, url) ==
  IF headers = << >> THEN jar
  ELSE SetCookies(setCookie(jar, Head(headers), url), Tail(headers), url)
\* storeCookies: the monitor's jar (a new one if it has none) takes the
\* cookies of the headers
storeCookies(stores, monitorId, url, setCookieHeaders, ttl) ==
  LET store == getCookieJar(stores[monitorId], ttl)
  IN [stores EXCEPT ![monitorId] = [store EXCEPT !.jar = SetCookies(@, setCookieHeaders, url)]]

\* variant: the Cookie header is made of every jar
getCookieHeaderAnyJar(stores, monitorId, url) ==
  {<<c.key, c.value>> : c \in UNION {getCookies(stores[m].jar, url) : m \in DOMAIN stores}}

\* getCookieHeader: the key=value pairs of the cookies the monitor's jar has
\* for the URL; null without a store or without such cookies
getCookieHeader(stores, monitorId, url) ==
  IF stores[monitorId] = NoStore THEN NoCookieHeader
  ELSE {<<c.key, c.value>> : c \in getCookies(stores[monitorId].jar, url)}

\* ------------------------------------------------ response text and headers
\* Text (a body, a header value) is a sequence of words; `includes` is
\* containment of a run of words and toLowerCase works word by word.  This
\* is exact for the texts drawn below: none of their words has a pattern as a
\* proper part.
Undefined == <<"undefined">>
NoHeaders == << >>

\* String.prototype.toLowerCase, on the words the texts are made of
LowerWord(w) ==
  CASE w = "Access" -> "access" [] w = "Denied" -> "denied" [] w = "Sucuri" -> "sucuri"
    [] w = "Website" -> "website" [] w = "Firewall" -> "firewall" [] w = "Just" -> "just"
    [] w = "Too" -> "too" [] w = "Many" -> "many" [] w = "Requests" -> "requests"
    [] w = "Cloudflare" -> "cloudflare" [] w = "Incapsula" -> "incapsula"
    [] w = "Please" -> "please" [] w = "Wait" -> "wait" [] w = "DDoS" -> "ddos"
    [] OTHER -> w
toLowerCase(text) == [i \in 1..Len(text) |-> LowerWord(text[i])]

\* String.prototype.includes
Includes(text, pattern) ==
  \E i \in 1..(Len(text) - Len(pattern) + 1) : SubSeq(text, i, i + Len(pattern) - 1) = pattern

\* index of the first pattern of the list that the text includes, 0 if none
FirstIncluded(patterns, text) ==
  LET hits == {i \in 1..Len(patterns) : Includes(text, patterns[i])}
  IN IF hits = {} THEN 0 ELSE CHOOSE i \in hits : \A j \in hits : i <= j

RECURSIVE JoinWords(_)
JoinWords(text) ==
  IF text = << >> THEN ""
  ELSE IF Len(text) = 1 THEN text[1]
  ELSE text[1] \o " " \o JoinWords(Tail(text))

\* headers[name]; header objects are functions from the names present
HeaderOf(headers, name) == IF name \in DOMAIN headers THEN headers[name] ELSE Undefined
HeaderValues(headers) == {headers[n] : n \in DOMAIN headers}
\* a header that is present and not the empty string
Truthy(value) == value # Undefined /\ value # << >>

\* ------------------------------------------------------ geoBlockDetection.js
GEO_BLOCKING_STATUS_CODES == {403, 451, 406, 402, 410, 418, 429, 503}

GEO_BLOCKING_KEYWORDS ==
  << <<"geo-block">>, <<"geoblocked">>, <<"geo", "block">>,
     <<"not", "available", "in", "your", "country">>,
     <<"not", "available", "in", "your", "region">>,
     <<"not", "available", "in", "your", "location">>,
     <<"content", "is", "not", "available">>,
     <<"access", "denied">>, <<"access", "restricted">>, <<"region", "restricted">>,
     <<"country", "restricted">>, <<"location", "restricted">>, <<"territory", "restricted">>,
     <<"geographical", "restriction">>, <<"geographic", "restriction">>,
     <<"legal", "reasons">>, <<"regulatory", "reasons">>, <<"compliance", "reasons">>,
     <<"gdpr">>, <<"forbidden">>, <<"blocked">>, <<"not", "permitted">>, <<"unavailable">> >>

CLOUDFLARE_PATTERNS ==
  << <<"cloudflare">>, <<"cf-ray">>, <<"attention", "required">>,
     <<"checking", "your", "browser">>, <<"just", "a", "moment">>, <<"please", "wait">>,
     <<"cf-challenge">>, <<"cf-captcha">>, <<"__cf_bm">>, <<"cf_clearance">> >>

\* Object.entries(WAF_PATTERNS), in insertion order
WAF_PATTERNS ==
  << [provider |-> "cloudflare", patterns |-> << <<"cloudflare">>, <<"cf-ray">> >>],
     [provider |-> "imperva", patterns |-> << <<"imperva">>, <<"incapsula">>, <<"_incap_">> >>],
     [provider |-> "akamai", patterns |-> << <<"akamai">>, <<"reference", "#">> >>],
     [provider |-> "aws_waf", patterns |-> << <<"aws", "waf">>, <<"awswaf">> >>],
     [provider |-> "f5", patterns |-> << <<"f5">>, <<"bigip">> >>],
     [provider |-> "barracuda", patterns |-> << <<"barracuda">> >>],
     [provider |-> "sucuri", patterns |-> << <<"sucuri">>, <<"access", "denied", "-", "sucuri">> >>],
     [provider |-> "wordfence",
      patterns |-> << <<"wordfence">>,
                      <<"access", "from", "your", "location", "has", "been", "blocked">> >>] >>

RATE_LIMIT_PATTERNS ==
  << <<"rate", "limit">>, <<"too", "many", "requests">>, <<"quota", "exceeded">>,
     <<"request", "limit">>, <<"throttled">>, <<"slow", "down">> >>

\* a classifier verdict; keys a verdict does not set are NoStr
Detected(type, reason, wafProvider) ==
  [detected |-> TRUE, type |-> type, reason |-> reason, wafProvider |-> wafProvider,
   cfRay |-> NoStr]
NotDetected ==
  [detected |-> FALSE, type |-> NoStr, reason |-> NoStr, wafProvider |-> NoStr, cfRay |-> NoStr]

\* detectCloudflare: `server?.includes('cloudflare') || cfRay !== undefined`
IsCloudflare(headers, body) ==
  \/ HeaderOf(headers, "server") # Undefined /\ Includes(HeaderOf(headers, "server"), <<"cloudflare">>)
  \/ HeaderOf(headers, "cf-ray") # Undefined

ChallengeType(body) ==
  IF Includes(body, <<"cf-captcha">>) \/ Includes(body, <<"captcha">>) THEN "CAPTCHA"
  ELSE IF Includes(body, <<"cf-challenge">>) \/ Includes(body, <<"checking", "your", "browser">>)
    THEN "JavaScript Challenge"
  ELSE IF Includes(body, <<"just", "a", "moment">>) \/ Includes(body, <<"please", "wait">>)
    THEN "Managed Challenge"
  ELSE "unknown"

\* metadata.cfRay of a Cloudflare verdict
CfRayOf(headers) ==
  IF Truthy(HeaderOf(headers, "cf-ray")) THEN JoinWords(HeaderOf(headers, "cf-ray")) ELSE NoStr

detectCloudflare(statusCode, headers, body) ==
  IF ~IsCloudflare(headers, body) THEN NotDetected
  ELSE IF FirstIncluded(CLOUDFLARE_PATTERNS, body) # 0
    THEN [Detected("cloudflare", "Cloudflare " \o ChallengeType(body) \o " detected", "Cloudflare")
            EXCEPT !.cfRay = CfRayOf(headers)]
  ELSE IF statusCode = 403
    THEN [Detected("cloudflare", "Cloudflare firewall block (possible geo-restriction)", "Cloudflare")
            EXCEPT !.cfRay = CfRayOf(headers)]
  ELSE NotDetected

\* a vendor's signature is in the body or in some header value
WafVendorMatches(vendor, headers, body) ==
  \E k \in 1..Len(vendor.patterns) :
    \/ Includes(body, vendor.patterns[k])
    \/ \E v \in HeaderValues(headers) : Includes(v, vendor.patterns[k])

\* variant: the last matching vendor of the table wins
WafVendorLast(headers, body) ==
  LET hits == {i \in 1..Len(WAF_PATTERNS) : WafVendorMatches(WAF_PATTERNS[i], headers, body)}
  IN IF hits = {} THEN 0 ELSE CHOOSE i \in hits : \A j \in hits : i >= j

\* index of the first vendor of the table with a matching signature, 0 if none
WafVendor(headers, body) ==
  LET hits == {i \in 1..Len(WAF_PATTERNS) : WafVendorMatches(WAF_PATTERNS[i], headers, body)}
  IN IF hits = {} THEN 0 ELSE CHOOSE i \in hits : \A j \in hits : i <= j

detectWAF(statusCode, headers, body) ==
  IF statusCode \notin GEO_BLOCKING_STATUS_CODES THEN NotDetected
  ELSE IF WafVendor(headers, body) # 0
    THEN Detected("waf",
                  "WAF block detected (" \o WAF_PATTERNS[WafVendor(headers, body)].provider \o ")",
                  WAF_PATTERNS[WafVendor(headers, body)].provider)
  ELSE NotDetected

\* detectRateLimit of geoBlockDetection.js (third classifier of the chain)
GeoBlock_detectRateLimit(statusCode, headers, body) ==
  IF statusCode = 429 THEN Detected("rate_limit", "Rate limit exceeded (HTTP 429)", NoStr)
  ELSE IF FirstIncluded(RATE_LIMIT_PATTERNS, body) # 0
    THEN Detected("rate_limit",
                  "Rate limit detected: " \o JoinWords(RATE_LIMIT_PATTERNS[FirstIncluded(RATE_LIMIT_PATTERNS, body)]),
                  NoStr)
  ELSE IF HeaderOf(headers, "x-ratelimit-remaining") = <<"0">> \/ Truthy(HeaderOf(headers, "retry-after"))
    THEN Detected("rate_limit", "Rate limit headers detected", NoStr)
  ELSE NotDetected

detectGeneralGeoBlocking(statusCode, headers, body, responseTime) ==
  IF statusCode \notin GEO_BLOCKING_STATUS_CODES THEN NotDetected
  ELSE IF FirstIncluded(GEO_BLOCKING_KEYWORDS, body) # 0
    THEN Detected("geo_blocking",
                  "Geo-blocking detected: \"" \o JoinWords(GEO_BLOCKING_KEYWORDS[FirstIncluded(GEO_BLOCKING_KEYWORDS, body)])
                    \o "\" found in response",
                  NoStr)
  ELSE IF Truthy(HeaderOf(headers, "x-geo-block")) \/ Truthy(HeaderOf(headers, "x-country-block"))
    THEN Detected("geo_blocking", "Geo-blocking header detected", NoStr)
  ELSE NotDetected

\* the header object with every value lower-cased
HeadersLower(headers) == [n \in DOMAIN headers |-> toLowerCase(headers[n])]

\* variant: the generic classifier is asked before the WAF classifier
detectGeoBlockingGenericFirst(statusCode, headers, responseBody, responseTime) ==
  LET bodyLower == toLowerCase(responseBody)
      headersLower == HeadersLower(headers)
  IN IF detectCloudflare(statusCode, headersLower, bodyLower).detected
       THEN detectCloudflare(statusCode, headersLower, bodyLower)
     ELSE IF detectGeneralGeoBlocking(statusCode, headersLower, bodyLower, responseTime).detected
       THEN detectGeneralGeoBlocking(statusCode, headersLower, bodyLower, responseTime)
     ELSE IF detectWAF(statusCode, headersLower, bodyLower).detected
       THEN detectWAF(statusCode, headersLower, bodyLower)
     ELSE IF GeoBlock_detectRateLimit(statusCode, headersLower, bodyLower).detected
       THEN GeoBlock_detectRateLimit(statusCode, headersLower, bodyLower)
     ELSE NotDetected

\* detectGeoBlocking: Cloudflare, WAF, rate limit, generic, in this order
detectGeoBlocking(statusCode, headers, responseBody, responseTime) ==
  LET bodyLower == toLowerCase(responseBody)
      headersLower == HeadersLower(headers)
  IN IF detectCloudflare(statusCode, headersLower, bodyLower).detected
       THEN detectCloudflare(statusCode, headersLower, bodyLower)
     ELSE IF detectWAF(statusCode, headersLower, bodyLower).detected
       THEN detectWAF(statusCode, headersLower, bodyLower)
     ELSE IF GeoBlock_detectRateLimit(statusCode, headersLower, bodyLower).detected
       THEN GeoBlock_detectRateLimit(statusCode, headersLower, bodyLower)
     ELSE IF detectGeneralGeoBlocking(statusCode, headersLower, bodyLower, responseTime).detected
       THEN detectGeneralGeoBlocking(statusCode, headersLower, bodyLower, responseTime)
     ELSE NotDetected

getBlockingMessage(detection) ==
  IF ~detection.detected THEN ""
  ELSE IF detection.type = "cloudflare"
    THEN "Cloudflare Protection: " \o detection.reason
           \o (IF detection.cfRay # NoStr THEN " (Ray ID: " \o detection.cfRay \o ")" ELSE "")
  ELSE IF detection.type = "waf" THEN "WAF Block: " \o detection.reason
  ELSE IF detection.type = "rate_limit" THEN "Rate Limited: " \o detection.reason
  ELSE IF detection.type = "geo_blocking" THEN "Geo-Blocked: " \o detection.reason
  ELSE detection.reason

\* ----------------------------------------------------- rateLimitDetection.js
RATE_LIMIT_STATUS_CODES == {429, 503}

RATE_LIMIT_BODY_PATTERNS ==
  << <<"rate", "limit">>, <<"too", "many", "requests">>, <<"quota", "exceeded">>,
     <<"rate", "exceeded">>, <<"throttle">>, <<"slowdown">> >>

\* JavaScript null and NaN of a numeric field
Null == 0 - 1
NaN == 0 - 2
\* Date.now() / 1000 while the headers are parsed
NowSeconds == 100

\* parseInt(value, 10) on the header values drawn below
ParseInt(value) ==
  IF value = <<"0">> THEN 0
  ELSE IF value = <<"60">> THEN 60
  ELSE IF value = <<"160">> THEN 160
  ELSE NaN
IsDigits(value) == value \in {<<"0">>, <<"60">>, <<"160">>}
IsFalsy(n) == n \in {0, Null, NaN}
\* `a || b || c` over header values
FirstTruthy(a, b, c) == IF Truthy(a) THEN a ELSE IF Truthy(b) THEN b ELSE c

\* parseRateLimitHeaders; a Retry-After that is neither digits nor a date
\* gives NaN (the dates drawn below do not parse)
parseRateLimitHeaders(headers) ==
  LET retryAfterHeader == HeaderOf(headers, "retry-after")
      retryAfter1 == IF ~Truthy(retryAfterHeader) THEN Null
                     ELSE IF IsDigits(retryAfterHeader) THEN ParseInt(retryAfterHeader)
                     ELSE NaN
      rateLimitLimit == FirstTruthy(HeaderOf(headers, "x-ratelimit-limit"),
                                    HeaderOf(headers, "x-rate-limit-limit"),
                                    HeaderOf(headers, "ratelimit-limit"))
      rateLimitRemaining == FirstTruthy(HeaderOf(headers, "x-ratelimit-remaining"),
                                        HeaderOf(headers, "x-rate-limit-remaining"),
                                        HeaderOf(headers, "ratelimit-remaining"))
      rateLimitReset == FirstTruthy(HeaderOf(headers, "x-ratelimit-reset"),
                                    HeaderOf(headers, "x-rate-limit-reset"),
                                    HeaderOf(headers, "ratelimit-reset"))
      reset == IF Truthy(rateLimitReset) THEN ParseInt(rateLimitReset) ELSE Null
  IN [retryAfter |-> IF Truthy(rateLimitReset) /\ reset # NaN /\ IsFalsy(retryAfter1)
                       THEN (IF reset > NowSeconds THEN reset - NowSeconds ELSE 0)
                     ELSE retryAfter1,
      limit |-> IF Truthy(rateLimitLimit) THEN ParseInt(rateLimitLimit) ELSE Null,
      remaining |-> IF Truthy(rateLimitRemaining) THEN ParseInt(rateLimitRemaining) ELSE Null,
      reset |-> reset]

RateLimited(statusCode, info, pattern) ==
  [detected |-> TRUE, statusCode |-> statusCode,
   type |-> IF statusCode = 429 THEN "429_too_many_requests" ELSE "503_rate_limit",
   retryAfter |-> info.retryAfter, limit |-> info.limit, remaining |-> info.remaining,
   reset |-> info.reset, pattern |-> pattern]
NotRateLimited ==
  [detected |-> FALSE, statusCode |-> Null, type |-> NoStr, retryAfter |-> Null, limit |-> Null,
   remaining |-> Null, reset |-> Null, pattern |-> NoStr]

\* detectRateLimit of rateLimitDetection.js (the one the probes import)
detectRateLimit(statusCode, headers, body) ==
  LET rateLimitInfo == parseRateLimitHeaders(headers)
      hit == FirstIncluded(RATE_LIMIT_BODY_PATTERNS, toLowerCase(body))
  IN IF statusCode \notin RATE_LIMIT_STATUS_CODES THEN NotRateLimited
     ELSE IF hit # 0
       THEN RateLimited(statusCode, rateLimitInfo, JoinWords(RATE_LIMIT_BODY_PATTERNS[hit]))
     ELSE IF ~IsFalsy(rateLimitInfo.retryAfter) \/ rateLimitInfo.limit # Null
       THEN RateLimited(statusCode, rateLimitInfo, NoStr)
     ELSE NotRateLimited

\* ------------------------------------------- detectGeoRedirect (part_002)
\* Location values one of the six geoPatterns matches: of the values drawn,
\* the ones with a two-letter path segment
GeoPaths == {"/de/"}
MatchesGeoPattern(location) == location.kind # "none" /\ location.path \in GeoPaths

GeoRedirect(i, location) == [detected |-> TRUE, hopIndex |-> i, redirectUrl |-> location]
NoGeoRedirect == [detected |-> FALSE, hopIndex |-> Null, redirectUrl |-> NoLocation]

detectGeoRedirect(redirectChain) ==
  LET hits == {i \in 1..Len(redirectChain) : MatchesGeoPattern(redirectChain[i].location)}
  IN IF hits = {} THEN NoGeoRedirect
     ELSE LET i == CHOOSE k \in hits : \A j \in hits : k <= j
          IN GeoRedirect(i - 1, redirectChain[i].location)

\* ------------------------------- detectGeoBlocking of the TypeScript probe
TS_GEO_BLOCKING_STATUS_CODES == {403, 451, 406}
GEO_BLOCKING_PATTERNS ==
  << <<"access", "denied">>, <<"forbidden">>, <<"geo-blocked">>,
     <<"not", "available", "in", "your", "region">>, <<"country", "block">>,
     <<"region", "block">>, <<"blocked", "in", "your", "country">>,
     <<"geographical", "restriction">> >>

\* the indicators pushed for the patterns a text contains, in pattern order
RECURSIVE PatternIndicators(_, _, _)
PatternIndicators(patterns, text, prefix) ==
  IF patterns = << >> THEN << >>
  ELSE (IF Includes(text, Head(patterns))
          THEN <<prefix \o " contains \"" \o JoinWords(Head(patterns)) \o "\"">>
        ELSE << >>)
       \o PatternIndicators(Tail(patterns), text, prefix)

\* errorMessage is one of the probe's own two messages ("Expected status ..",
\* "Response time ..") or null: neither holds a pattern, so only the status
\* code and the body contribute
TsDetectGeoBlocking(statusCode, errorMessage, responseBody) ==
  LET indicators ==
        (IF statusCode # NullStatus /\ statusCode \in TS_GEO_BLOCKING_STATUS_CODES
           THEN <<"Status code " \o ToString(statusCode) \o " indicates potential geo-blocking">>
         ELSE << >>)
        \o PatternIndicators(GEO_BLOCKING_PATTERNS, toLowerCase(responseBody), "Response body")
  IN [isGeoBlocked |-> Len(indicators) > 0, indicators |-> indicators]

\* ------------------------------------------------------------ check results
StatusTaxonomy == {"up", "down", "degraded", "dns_failure"}

\* detectionMetadata: null, or an object holding the verdicts that detected
NoMetadata ==
  [present |-> FALSE, geoBlocking |-> NotDetected, geoRedirect |-> NoGeoRedirect,
   rateLimit |-> NotRateLimited]
\* `detectionMetadata = { geoBlocking: ... }` when the primary chain detected
MetadataOfGeoBlocking(geoBlockDetection) ==
  IF geoBlockDetection.detected
    THEN [NoMetadata EXCEPT !.present = TRUE, !.geoBlocking = geoBlockDetection]
  ELSE NoMetadata
\* variant: the geo-redirect verdict is only added to an existing object
WithGeoRedirectIfPresent(detectionMetadata, geoRedirect) ==
  IF geoRedirect.detected /\ detectionMetadata.present
    THEN [detectionMetadata EXCEPT !.geoRedirect = geoRedirect]
  ELSE detectionMetadata
\* `if (!detectionMetadata) detectionMetadata = {}; detectionMetadata.geoRedirect = ...`
WithGeoRedirect(detectionMetadata, geoRedirect) ==
  IF geoRedirect.detected
    THEN [detectionMetadata EXCEPT !.present = TRUE, !.geoRedirect = geoRedirect]
  ELSE detectionMetadata
\* variant: the rate-limit verdict is added only when nothing else detected
WithRateLimitUnlessPrimary(detectionMetadata, rateLimitDetection) ==
  IF rateLimitDetection.detected /\ ~detectionMetadata.present
    THEN [detectionMetadata EXCEPT !.present = TRUE, !.rateLimit = rateLimitDetection]
  ELSE detectionMetadata
\* `detectionMetadata.rateLimit = ...` or `detectionMetadata = { rateLimit: ... }`
WithRateLimit(detectionMetadata, rateLimitDetection) ==
  IF rateLimitDetection.detected
    THEN [detectionMetadata EXCEPT !.present = TRUE, !.rateLimit = rateLimitDetection]
  ELSE detectionMetadata

\* challengeInfo of the TypeScript probe: null, or the challenge note
NoChallenge == [detected |-> FALSE, type |-> NoStr]
Challenge(type) == [detected |-> TRUE, type |-> type]

\* the object a check resolves with; keys a build never sets are FALSE / null
MkResult(status, statusCode, ms, error, redirectCount, finalUrl, chain) ==
  [status |-> status, statusCode |-> statusCode, responseTimeMs |-> ms, error |-> error,
   redirectCount |-> redirectCount, finalUrl |-> finalUrl, redirectChain |-> chain,
   isLoop |-> FALSE, maxRedirectsExceeded |-> FALSE,
   isGeoBlocked |-> FALSE, geoBlockingIndicators |-> << >>,
   detectionMetadata |-> NoMetadata, rateLimitInfo |-> NotRateLimited,
   challengeInfo |-> NoChallenge,
   contentValidated |-> NoStr, contentHash |-> NoStr, validationErrors |-> << >>]
\* the geo-blocking keys of a result of the JavaScript probe
WithGeoBlocking(r, geoBlockDetection, detectionMetadata) ==
  [r EXCEPT !.isGeoBlocked = geoBlockDetection.detected,
            !.geoBlockingIndicators = IF geoBlockDetection.detected
                                        THEN <<geoBlockDetection.reason>> ELSE << >>,
            !.detectionMetadata = detectionMetadata]
NoResult == MkResult(NoStr, NullStatus, 0, NoStr, 0, NoUrl, << >>)

\* the HTTP answer of POST /check
NoReply == [code |-> 0, status |-> NoStr, error |-> NoStr]
ReplyResult(r) == [code |-> 200, status |-> r.status, error |-> r.error]
ReplyBadRequest == [code |-> 400, status |-> NoStr, error |-> "Missing url or host/port"]
ReplyUnauthorized == [code |-> 401, status |-> NoStr, error |-> "Unauthorized"]
\* app.get('/health')
ReplyHealth(b) ==
  [code |-> 200, status |-> IF b = ImplDns THEN "healthy" ELSE "ok", error |-> NoStr]
\* the catch of app.post('/check')
ReplyCaught(build, msg) ==
  [code |-> 500, status |-> IF build = ImplDns THEN "error" ELSE NoStr, error |-> msg]

\* `expectedStatus = 200` default of the destructuring
ExpectedOrDefault(expectedStatus) == IF expectedStatus = NullStatus THEN 200 ELSE expectedStatus

\* isUp / finalIsUp of the JavaScript probe
IsUp(statusCode, expectedStatus) ==
  \/ statusCode = expectedStatus
  \/ (expectedStatus = 200 /\ statusCode >= 200 /\ statusCode < 300)

\* `degradedThresholdMs && ms > degradedThresholdMs` (0 stands for unset)
Degraded(ms, degradedThresholdMs) == degradedThresholdMs # 0 /\ ms > degradedThresholdMs

\* ---------------------------------------------------- contentValidation.js
\* crypto.createHash(algorithm).update(content).digest('hex'): the digest is
\* a token fixed by the algorithm and the content, different for different
\* contents or algorithms
Digest(algorithm, content) == algorithm \o ":" \o JoinWords(content)

\* a ContentValidationConfig; NoStr stands for a key that is not set (or
\* the empty string), detectChanges is "true", "false" or not set
ValidationConfig(enabled, type, expectedHash, algorithm, detectChanges) ==
  [enabled |-> enabled, type |-> type, expectedHash |-> expectedHash,
   algorithm |-> algorithm, detectChanges |-> detectChanges]
\* a ValidationResult; the messages are kept without the excerpts of the two
\* hashes, responseSize is left out
ValidationResult(passed, errors, warnings, contentHash) ==
  [passed |-> passed, errors |-> errors, warnings |-> warnings, contentHash |-> contentHash]

\* variant: a changed hash is an error whatever detectChanges says
validateHashStrict(content, config) ==
  LET hash == Digest(IF config.algorithm = NoStr THEN "sha256" ELSE config.algorithm, content)
  IN IF config.expectedHash # NoStr /\ hash # config.expectedHash
       THEN ValidationResult(FALSE, <<"Content hash mismatch">>, << >>, hash)
     ELSE ValidationResult(TRUE, << >>, << >>, hash)

validateHash(content, config) ==
  LET hash == Digest(IF config.algorithm = NoStr THEN "sha256" ELSE config.algorithm, content)
  IN IF config.expectedHash # NoStr /\ hash # config.expectedHash
       THEN IF config.detectChanges = "true"
              THEN ValidationResult(TRUE, << >>, <<"Content changed - hash mismatch">>, hash)
            ELSE ValidationResult(FALSE, <<"Content hash mismatch">>, << >>, hash)
     ELSE ValidationResult(TRUE, << >>, << >>, hash)

\* validateContent, for the hash type and for a type it does not know
validateContent(content, config) ==
  IF ~config.enabled THEN ValidationResult(TRUE, << >>, << >>, NoStr)
  ELSE IF config.type = "hash" THEN validateHash(content, config)
  ELSE ValidationResult(FALSE, <<"Unknown validation type: " \o config.type>>, << >>, NoStr)

\* `contentValidation` is not a key of the request: the config is undefined
NoConfig == ValidationConfig(FALSE, "undefined", NoStr, NoStr, NoStr)

NoValidation ==
  [validated |-> FALSE, content |-> << >>,
   config |-> ValidationConfig(FALSE, NoStr, NoStr, NoStr, NoStr),
   result |-> ValidationResult(TRUE, << >>, << >>, NoStr)]

\* ------------------------------------------------------- advisory backoff
\* Math.min / Math.max: NaN if an argument is NaN
MathMin(a, b) == IF a = NaN \/ b = NaN THEN NaN ELSE IF a <= b THEN a ELSE b
MathMax(a, b) == IF a = NaN \/ b = NaN THEN NaN ELSE IF a >= b THEN a ELSE b
\* the cap of calculateBackoff, in seconds
OneHour == 3600
\* Date.now() + backoffSeconds * 1000, in seconds
NextCheckAt(backoffSeconds) == NowSeconds + backoffSeconds
calculateBackoff(rateLimitInfo, currentInterval, consecutiveRateLimits) ==
  LET backoffLevels == <<60, 120, 300, 600, 1200>>
      level == MathMin(consecutiveRateLimits, Len(backoffLevels) - 1)
      chosen == IF ~IsFalsy(rateLimitInfo.retryAfter) THEN rateLimitInfo.retryAfter
                ELSE backoffLevels[level + 1]
      backoffSeconds == MathMax(MathMin(chosen, OneHour), currentInterval)
  IN [backoffSeconds |-> backoffSeconds,
      nextCheckAt |-> NextCheckAt(backoffSeconds),
      shouldIncreaseInterval |-> consecutiveRateLimits >= 2,
      recommendedInterval |-> IF consecutiveRateLimits >= 2
                                THEN MathMin(currentInterval * 2, 600)
                              ELSE currentInterval]
\* the arguments the calls are drawn from: retryAfter as
\* parseRateLimitHeaders leaves it (null, NaN, seconds), check intervals in
\* seconds, counts of consecutive rate limits
BackoffRetryAfters == {Null, NaN, 0, 60, 160, 5000}
BackoffIntervals == {30, 60, 300, 1200, 3600, 7200}
BackoffCounts == 0..6
NoBackoff ==
  [called |-> FALSE, rateLimitInfo |-> NotRateLimited, currentInterval |-> 0,
   consecutiveRateLimits |-> 0,
   result |-> [backoffSeconds |-> 0, nextCheckAt |-> 0, shouldIncreaseInterval |-> FALSE,
               recommendedInterval |-> 0]]

\* --------------------------------------------------------- request inputs
MonitorId == "m1"
\* ALL_USER_AGENTS.length
UserAgentCount == 7
\* PROBE_SECRET as the deployment sets it
Secret == "your-secret"
\* `timeout = 30000` (HTTP) and `timeout = 10000` (TCP) defaults, in ms
DefaultHttpTimeout == 30000
DefaultTcpTimeout == 10000
\* the TypeScript probe hands `timeout * 1000` to followRedirects
TsHopTimeout == DefaultHttpTimeout * 1000
Thresholds == {0, 1}

MkReq(url, monitorType, hostPort, expectedStatus, threshold, cookies, timeoutOk, authOk) ==
  [url |-> url, monitorType |-> monitorType, hostPort |-> hostPort,
   expectedStatus |-> expectedStatus, degradedThresholdMs |-> threshold,
   monitorId |-> MonitorId, enableCookies |-> cookies, treatRedirectsAsUp |-> FALSE,
   contentValidation |-> NoConfig,
   timeoutOk |-> timeoutOk, authOk |-> authOk, endpoint |-> "POST /check"]
NoReq == MkReq(NoUrl, NoStr, FALSE, NullStatus, 0, FALSE, TRUE, FALSE)

\* (expectedStatus, degradedThresholdMs, enableCookies, contentValidation) of
\* the HTTP requests
HttpOptions ==
  {<<NullStatus, 0, FALSE, NoConfig>>,
   <<200, 0, FALSE, ValidationConfig(TRUE, "hash", Digest("sha256", BodyDenied), NoStr, NoStr)>>,
   <<NullStatus, 1, FALSE, ValidationConfig(FALSE, "hash", NoStr, NoStr, NoStr)>>,
   <<NullStatus, 3, FALSE, ValidationConfig(TRUE, "hash", Digest("sha256", BodyOk), NoStr, "true")>>,
   <<NullStatus, 0, TRUE, ValidationConfig(TRUE, "checksum", NoStr, NoStr, NoStr)>>}
HttpRequests ==
  {[MkReq(u, NoStr, FALSE, o[1], o[2], o[3], TRUE, TRUE) EXCEPT !.contentValidation = o[4]] :
     u \in {StartUrl, BadUrl}, o \in HttpOptions}
TcpRequests ==
  {MkReq(NoUrl, m, TRUE, NullStatus, t, FALSE, ok, TRUE) :
     m \in {"tcp", "tcp_ping"}, t \in Thresholds, ok \in BOOLEAN}
OtherRequests ==
  {MkReq(NoUrl, NoStr, FALSE, NullStatus, 0, FALSE, TRUE, TRUE),
   MkReq(StartUrl, NoStr, FALSE, NullStatus, 0, FALSE, TRUE, FALSE)}
Requests == HttpRequests \cup TcpRequests \cup OtherRequests

\* -------------------------------------------------------------------- state
VARIABLES
  build,        \* which probe build serves POST /check
  probeSecret,  \* PROBE_SECRET of the process ('' when the variable is not set)
  pc,           \* where the check in flight is suspended
  req,          \* req.body of the request in flight
  dnsCache,     \* dnsCache: hostname -> entry (NoEntry: none)
  cookieStores, \* cookieStores: monitor id -> store (NoStore: none)
  netLog,       \* network operations (and aborts) of this check, in order
  v4Error,      \* the IPv4 error resolveDns keeps while it tries IPv6
  dnsElapsed,   \* Date.now() - startTime of resolveDns when the IPv6 query is issued
  inFlight,     \* network operations started and neither finished nor destroyed
  dnsResult,    \* what resolveDns returned to performHttpCheck
  endCtx,       \* locals of the end handler kept across `await followRedirects`
  fr,           \* locals of followRedirects
  frResult,     \* what followRedirects returned
  lastEvent,    \* the network event the handler that ran last was called with
  result,       \* what performHttpCheck / performTcpCheck resolved with
  reply,        \* what POST /check answered
  sample,       \* the response (as sent) the classifiers or the last handler got
  verdict,      \* what the classifier library returned for the sample
  validation,   \* a call of validateContent: content, config and what it returned
  resolveCalls, \* the calls of safeResolve of a request whose events race, in order
  checks,       \* the locals of each of the checks that run concurrently
  rotationIndex, \* rotationIndex of the User-Agent rotation
  backoff       \* a call of calculateBackoff: its arguments and what it returned

vars == <<build, probeSecret, backoff, pc, req, dnsCache, cookieStores, netLog, v4Error, dnsElapsed, inFlight, dnsResult,
          endCtx, fr, frResult, lastEvent, result, reply, sample, verdict, validation,
          resolveCalls, checks, rotationIndex>>

DnsHostnames == Hosts \cup {BadUrl.path}

\* the checks that run at the same time, and the locals of one of them:
\* where it is suspended, its request, the DNS cache it found when it
\* started, the resolver and HTTP events it was called with, what resolveDns
\* returned, the User-Agent and Cookie header it sent, its result
CheckIds == {1, 2}
NoNetEvent == [kind |-> NoStr, ips |-> << >>, code |-> 0 - 1, headers |-> << >>, body |-> << >>,
               setCookie |-> << >>, msg |-> << >>, ms |-> 0]
DnsAnswerEvent(ips, ms) == [NoNetEvent EXCEPT !.kind = "answer", !.ips = ips, !.ms = ms]
DnsFailEvent(msg, ms) == [NoNetEvent EXCEPT !.kind = "fail", !.msg = <<msg>>, !.ms = ms]
HttpAnswerEvent(code, headers, body, ms) ==
  [NoNetEvent EXCEPT !.kind = "answer", !.code = code, !.headers = headers, !.body = body,
                     !.ms = ms]
HttpErrorEvent(msg, ms) == [NoNetEvent EXCEPT !.kind = "error", !.msg = msg, !.ms = ms]
NoCtx ==
  [statusCode |-> NullStatus, status |-> NoStr, errorMsg |-> NoStr, httpResponseTime |-> 0,
   responseHeaders |-> NoHeaders, body |-> NoBody, geoBlockDetection |-> NotDetected]

\* a response as it was sent
Sample(statusCode, headers, body, responseTime) ==
  [statusCode |-> statusCode, headers |-> headers, body |-> body, responseTime |-> responseTime]
NoSample == Sample(NullStatus, NoHeaders, NoBody, 0)
\* the verdicts of the classifier library for one response
NoVerdict ==
  [classified |-> FALSE, primary |-> NotDetected, cloudflare |-> NotDetected, waf |-> NotDetected,
   rateLimit |-> NotDetected, general |-> NotDetected, rateLimitInfo |-> NotRateLimited]

Op(kind, url) == [op |-> kind, url |-> url]
Event(kind, msg) == [kind |-> kind, msg |-> msg]
NoEvent == Event(NoStr, NoStr)

\* the network operation a check suspended at p waits for: the last one it
\* started
Awaited(p, log) ==
  IF p \in {"tcp", "dns4", "dns6", "http", "hop"} THEN {log[Len(log)]} ELSE {}
\* operations still in flight that the check does not wait for any more
Others == inFlight \ Awaited(pc, netLog)

NoCheck ==
  [pc |-> "idle", req |-> NoReq, startCache |-> [h \in DnsHostnames |-> NoEntry],
   dns |-> NoNetEvent, http |-> NoNetEvent, v4Error |-> NoStr, dnsElapsed |-> 0,
   dnsResult |-> NoDns, userAgent |-> 0, cookieSent |-> FALSE,
   cookieHeaderValue |-> NoCookieHeader, result |-> NoResult]
NoChecks == [c \in CheckIds |-> NoCheck]

\* the dispatch of app.post('/check'): which check a request body gets
RouteOf(b, q) ==
  IF b = ImplDns
    THEN IF q.monitorType = "tcp" \/ (q.url = NoUrl /\ q.hostPort) THEN "tcp"
         ELSE IF q.url # NoUrl THEN "http"
         ELSE "bad"
  ELSE IF q.monitorType = "tcp_ping" THEN "tcp" ELSE "http"

Init ==
  /\ build \in Impls
  /\ probeSecret = Secret
  /\ pc = "idle"
  /\ req = NoReq
  /\ dnsCache = [h \in DnsHostnames |-> NoEntry]
  /\ cookieStores = [m \in {MonitorId} |-> NoStore]
  /\ netLog = << >>
  /\ v4Error = NoStr
  /\ dnsElapsed = 0
  /\ inFlight = {}
  /\ dnsResult = NoDns
  /\ endCtx = NoCtx
  /\ fr = NoFr
  /\ frResult = NoFrResult
  /\ lastEvent = NoEvent
  /\ result = NoResult
  /\ reply = NoReply
  /\ sample = NoSample
  /\ verdict = NoVerdict
  /\ validation = NoValidation
  /\ resolveCalls = << >>
  /\ checks = NoChecks
  /\ rotationIndex = 0
  /\ backoff = NoBackoff

\* ------------------------------------------ results of the JavaScript probe
CodeStr(code) == IF code = NullStatus THEN "null" ELSE ToString(code)
DegradedMsg(ms, threshold) ==
  "Response time " \o ToString(ms) \o "ms exceeded threshold " \o ToString(threshold) \o "ms"

DnsFailureResult(d, url) ==
  MkResult("dns_failure", NullStatus, d.responseTimeMs,
           "DNS resolution failed: " \o d.error, 0, url, << >>)
DnsHijackResult(d, url) ==
  MkResult("dns_failure", NullStatus, d.responseTimeMs,
           "DNS hijacking detected: " \o d.hijackReason, 0, url, << >>)
\* variant: the error handler reports a status of its own
HttpErrorResultStatusError(msg, ms, d, url) ==
  MkResult("error", 0, ms + d.responseTimeMs, JoinWords(msg), 0, url, << >>)
\* req.on('error'): the error message is handed to detectGeoBlocking as body
HttpErrorResult(msg, ms, d, url) ==
  LET geoBlockDetection == detectGeoBlocking(0, NoHeaders, msg, ms)
  IN WithGeoBlocking(MkResult("down", 0, ms + d.responseTimeMs, JoinWords(msg), 0, url, << >>),
                     geoBlockDetection, MetadataOfGeoBlocking(geoBlockDetection))
\* req.on('timeout')
HttpTimeoutResult(timeout, d, url) ==
  MkResult("down", 0, timeout + d.responseTimeMs, "Request timeout", 0, url, << >>)
\* catch around `new URL(url)` / request set-up
HttpCatchResult(msg, d, url) == MkResult("down", 0, d.responseTimeMs, msg, 0, url, << >>)

\* status, errorMsg of the end handler before redirect tracking
EndCtx(code, headers, body, ms, config, d) ==
  LET expected == ExpectedOrDefault(config.expectedStatus)
      isUp == IsUp(code, expected)
      geoBlockDetection == detectGeoBlocking(code, headers, body, ms)
      total == ms + d.responseTimeMs
      slow == isUp /\ Degraded(total, config.degradedThresholdMs)
  IN [statusCode |-> code,
      status |-> IF slow THEN "degraded" ELSE IF isUp THEN "up" ELSE "down",
      errorMsg |-> IF slow THEN DegradedMsg(total, config.degradedThresholdMs)
                   ELSE IF geoBlockDetection.detected THEN getBlockingMessage(geoBlockDetection)
                   ELSE IF isUp THEN NoStr
                   ELSE "Expected " \o ToString(expected) \o ", got " \o CodeStr(code),
      httpResponseTime |-> ms,
      responseHeaders |-> headers, body |-> body, geoBlockDetection |-> geoBlockDetection]

\* the end handler's detection keys: detectionMetadata is built from the
\* primary verdict, then the geo-redirect verdict of the chain, then the
\* rate-limit verdict for (current statusCode, first response's headers, body)
EndDetection(r0, ctx, statusCode, geoRedirect) ==
  LET rateLimitDetection == detectRateLimit(statusCode, ctx.responseHeaders, ctx.body)
      detectionMetadata ==
        WithRateLimit(WithGeoRedirect(MetadataOfGeoBlocking(ctx.geoBlockDetection), geoRedirect),
                      rateLimitDetection)
  IN [WithGeoBlocking(r0, ctx.geoBlockDetection, detectionMetadata)
        EXCEPT !.rateLimitInfo = rateLimitDetection]

\* safeResolve of the end handler when no redirect is followed
EndResult(ctx, d, url) ==
  EndDetection(MkResult(ctx.status, ctx.statusCode, ctx.httpResponseTime + d.responseTimeMs,
                        ctx.errorMsg, 0, url, << >>),
               ctx, ctx.statusCode, NoGeoRedirect)

\* variant: the status of the first response is kept after the redirects
EndAfterRedirectsKeepFirst(ctx, r, config, d) ==
  MkResult(ctx.status, ctx.statusCode, ctx.httpResponseTime + d.responseTimeMs, ctx.errorMsg,
           r.redirectCount, r.finalUrl, r.redirectChain)

\* safeResolve of the end handler after `await followRedirects`
EndAfterRedirects(ctx, r, config, d) ==
  LET expected == ExpectedOrDefault(config.expectedStatus)
      finalIsUp == IsUp(r.finalStatusCode, expected)
      totalRedirectTime == ctx.httpResponseTime + r.totalRedirectTime
      slow == finalIsUp /\ Degraded(totalRedirectTime, config.degradedThresholdMs)
      total == ctx.httpResponseTime + d.responseTimeMs
      geoRedirect == detectGeoRedirect(r.redirectChain)
  IN IF r.hasFinalResponse
       THEN EndDetection(
              MkResult(IF slow THEN "degraded" ELSE IF finalIsUp THEN "up" ELSE "down",
                       r.finalStatusCode, total,
                       IF slow THEN DegradedMsg(totalRedirectTime, config.degradedThresholdMs)
                                      \o " (including " \o ToString(r.redirectCount) \o " redirects)"
                       ELSE IF finalIsUp THEN NoStr
                       ELSE "Final destination returned " \o CodeStr(r.finalStatusCode)
                            \o " (expected " \o ToString(expected) \o ")",
                       r.redirectCount, r.finalUrl, r.redirectChain),
              ctx, r.finalStatusCode, geoRedirect)
     ELSE EndDetection(MkResult(ctx.status, ctx.statusCode, total, ctx.errorMsg,
                                r.redirectCount, r.finalUrl, r.redirectChain),
                       ctx, ctx.statusCode, geoRedirect)

\* performTcpCheck of the JavaScript probe
TcpConnectResult(ms, config) ==
  IF Degraded(ms, config.degradedThresholdMs)
    THEN MkResult("degraded", NullStatus, ms, DegradedMsg(ms, config.degradedThresholdMs), 0, NoUrl, << >>)
  ELSE MkResult("up", NullStatus, ms, NoStr, 0, NoUrl, << >>)
TcpErrorResult(msg, ms) == MkResult("down", NullStatus, ms, msg, 0, NoUrl, << >>)
TcpTimeoutResult(timeout) == MkResult("down", NullStatus, timeout, "Connection timeout", 0, NoUrl, << >>)

\* ------------------------------------------ results of the TypeScript probe
\* cfIndicators, each lower-cased as the comparison does
cfIndicators ==
  << <<"cf-browser-verification">>, <<"cf_chl_opt">>, <<"challenge-platform">>, <<"__cf_chl">>,
     <<"just", "a", "moment">>, <<"checking", "your", "browser">>, <<"cloudflare">>,
     <<"please", "wait">>, <<"ddos", "protection">> >>
BodyHasCfIndicator(body) == FirstIncluded(cfIndicators, toLowerCase(body)) # 0

BoolStr(b) == IF b THEN "true" ELSE "false"

\* variant: a response that fails its content validation is reported down
TsContentValidationFailsCheck(r0, contentValidation, responseBody) ==
  IF responseBody = NoBody \/ contentValidation = NoConfig THEN r0
  ELSE LET validationResult == validateContent(responseBody, contentValidation)
       IN IF validationResult.passed THEN r0
          ELSE [r0 EXCEPT !.status = "down", !.error = "Content validation failed",
                          !.contentValidated = "false"]

\* performHttpCheck, content validation of a non-empty response body;
\* contentValidated, contentHash and validationErrors are undefined before.
\* An undefined config makes validateContent reject (`config.enabled`); with
\* a config, `responseSize = ...` assigns to a const after contentValidated,
\* contentHash and validationErrors were set.  Either TypeError is caught and
\* its message becomes the only validation error.
TsContentValidation(r0, contentValidation, responseBody) ==
  IF responseBody = NoBody THEN r0
  ELSE IF contentValidation = NoConfig
    THEN [r0 EXCEPT !.validationErrors =
                      <<"Cannot read properties of undefined (reading 'enabled')">>]
  ELSE LET validationResult == validateContent(responseBody, contentValidation)
       IN [r0 EXCEPT !.contentValidated = BoolStr(validationResult.passed),
                     !.contentHash = validationResult.contentHash,
                     !.validationErrors = <<"Assignment to constant variable.">>]

\* performHttpCheck after `await followRedirects`
TsAssemble(config, r) ==
  LET raw == IF r.hasFinalResponse THEN r.finalResponse.statusCode ELSE NullStatus
      \* `finalResponse?.statusCode || null`
      statusCode == IF raw = 0 THEN NullStatus ELSE raw
      responseTimeMs == r.totalRedirectTime
      responseBody == r.finalResponse.body
      isRedirect == statusCode # NullStatus /\ statusCode >= 300 /\ statusCode < 400
      isJsRedirect == r.noLocationHeader /\ isRedirect
      isCloudflareChallenge == isJsRedirect /\ responseBody # NoBody /\ BodyHasCfIndicator(responseBody)
      shouldTreatRedirectAsUp == config.treatRedirectsAsUp /\ isRedirect
      isCloudflareReachable == isJsRedirect /\ (isCloudflareChallenge \/ statusCode \in {302, 303})
      mismatch == /\ config.expectedStatus # NullStatus
                  /\ statusCode # config.expectedStatus
                  /\ ~shouldTreatRedirectAsUp
                  /\ ~isCloudflareReachable
      slow == ~mismatch /\ Degraded(responseTimeMs, config.degradedThresholdMs)
      errorMessage ==
        IF mismatch
          THEN "Expected status " \o ToString(config.expectedStatus) \o ", got " \o CodeStr(statusCode)
        ELSE IF slow THEN DegradedMsg(responseTimeMs, config.degradedThresholdMs)
        ELSE NoStr
      geoBlockCheck == TsDetectGeoBlocking(statusCode, errorMessage, responseBody)
      challengeInfo ==
        IF isCloudflareReachable
          THEN Challenge(IF isCloudflareChallenge THEN "cloudflare_challenge" ELSE "js_redirect")
        ELSE NoChallenge
  IN TsContentValidation(
       [MkResult(IF mismatch THEN "down" ELSE IF slow THEN "degraded" ELSE "up",
                 statusCode, responseTimeMs, errorMessage,
                 r.redirectCount, r.finalUrl, r.redirectChain)
          EXCEPT !.isGeoBlocked = geoBlockCheck.isGeoBlocked,
                 !.geoBlockingIndicators = geoBlockCheck.indicators,
                 !.challengeInfo = challengeInfo],
       config.contentValidation, responseBody)

\* performTcpCheck: `host = ...` assigns to a const, the TypeError is caught
TsTcpResult == MkResult("down", NullStatus, 0, "Assignment to constant variable.", 0, NoUrl, << >>)

\* ------------------------------------------------------------------ actions
\* a check resolves and POST /check answers res.json(result)
Finish(r, log) ==
  /\ result' = r
  /\ reply' = ReplyResult(r)
  /\ netLog' = log
  /\ pc' = "responded"

\* authMiddleware calls next(): no secret is set, or the Authorization header
\* (q.authOk: it is 'Bearer ' followed by the deployment's secret) matches
Authorized(secret, q) == secret = NoStr \/ q.authOk

\* GET /health, sent without credentials: no middleware on the route
Health ==
  /\ pc = "idle"
  /\ req' = [NoReq EXCEPT !.endpoint = "GET /health"]
  /\ reply' = ReplyHealth(build)
  /\ pc' = "responded"
  /\ UNCHANGED <<inFlight, lastEvent, build, probeSecret, backoff, resolveCalls, checks, rotationIndex, dnsCache, cookieStores, netLog, v4Error, dnsElapsed, dnsResult, endCtx, fr, frResult, result, sample, verdict, validation>>

\* authMiddleware: wrong or missing bearer credential
Unauthorized(q) ==
  /\ pc = "idle"
  /\ ~Authorized(probeSecret, q)
  /\ req' = q
  /\ reply' = ReplyUnauthorized
  /\ pc' = "responded"
  /\ UNCHANGED <<inFlight, lastEvent, build, probeSecret, backoff, resolveCalls, checks, rotationIndex, dnsCache, cookieStores, netLog, v4Error, dnsElapsed, dnsResult, endCtx, fr, frResult, result, sample, verdict, validation>>

\* JavaScript probe, POST /check: neither a TCP target nor a url
BadRequest(q) ==
  /\ pc = "idle" /\ build = ImplDns
  /\ Authorized(probeSecret, q)
  /\ RouteOf(build, q) = "bad"
  /\ req' = q
  /\ reply' = ReplyBadRequest
  /\ pc' = "responded"
  /\ UNCHANGED <<inFlight, lastEvent, build, probeSecret, backoff, resolveCalls, checks, rotationIndex, dnsCache, cookieStores, netLog, v4Error, dnsElapsed, dnsResult, endCtx, fr, frResult, result, sample, verdict, validation>>

\* JavaScript probe, POST /check -> performTcpCheck up to socket.connect;
\* socket.setTimeout throws on a timeout that is not a valid duration and the
\* rejection lands in the catch of the endpoint
TcpStart(q) ==
  /\ pc = "idle" /\ build = ImplDns
  /\ Authorized(probeSecret, q)
  /\ RouteOf(build, q) = "tcp"
  /\ req' = q
  /\ IF q.timeoutOk
       THEN /\ netLog' = <<Op("tcp", NoUrl)>>
            /\ pc' = "tcp"
            /\ UNCHANGED reply
       ELSE /\ reply' = ReplyCaught(ImplDns, "The \"msecs\" argument must be of type number")
            /\ pc' = "responded"
            /\ UNCHANGED netLog
  /\ inFlight' = Others \cup Awaited(pc', netLog')
  /\ UNCHANGED <<lastEvent, build, probeSecret, backoff, resolveCalls, checks, rotationIndex, dnsCache, cookieStores, v4Error, dnsElapsed, dnsResult, endCtx, fr, frResult, result, sample, verdict, validation>>

TcpConnected(ms) ==
  /\ pc = "tcp"
  /\ Finish(TcpConnectResult(ms, req), Append(netLog, Op("destroy", NoUrl)))
  /\ inFlight' = Others \cup Awaited(pc', netLog')
  /\ lastEvent' = Event("connect", NoStr)
  /\ UNCHANGED <<build, probeSecret, backoff, resolveCalls, checks, rotationIndex, req, dnsCache, cookieStores, v4Error, dnsElapsed, dnsResult, endCtx, fr, frResult, sample, verdict, validation>>

TcpError(msg, ms) ==
  /\ pc = "tcp"
  /\ Finish(TcpErrorResult(JoinWords(msg), ms), Append(netLog, Op("destroy", NoUrl)))
  /\ inFlight' = Others \cup Awaited(pc', netLog')
  /\ lastEvent' = Event("error", JoinWords(msg))
  /\ UNCHANGED <<build, probeSecret, backoff, resolveCalls, checks, rotationIndex, req, dnsCache, cookieStores, v4Error, dnsElapsed, dnsResult, endCtx, fr, frResult, sample, verdict, validation>>

TcpTimeout ==
  /\ pc = "tcp"
  /\ Finish(TcpTimeoutResult(DefaultTcpTimeout), Append(netLog, Op("destroy", NoUrl)))
  /\ inFlight' = Others \cup Awaited(pc', netLog')
  /\ lastEvent' = Event("timeout", NoStr)
  /\ UNCHANGED <<build, probeSecret, backoff, resolveCalls, checks, rotationIndex, req, dnsCache, cookieStores, v4Error, dnsElapsed, dnsResult, endCtx, fr, frResult, sample, verdict, validation>>

\* getCookieHeader, logged with what it returned: a Cookie header to send
\* or null
CookieLookup(q) ==
  Op(IF getCookieHeader(cookieStores, q.monitorId, q.url) # NoCookieHeader
       THEN "cookieSend" ELSE "cookieGet", q.url)
\* `enableCookies && monitorId`
UsesCookies(q) == q.enableCookies /\ q.monitorId # NoStr

\* variant: the hijack flag of the DNS result is not looked at
AfterDnsIgnoringHijack(q, d, log) ==
  /\ dnsResult' = d
  /\ IF ~d.success THEN Finish(DnsFailureResult(d, q.url), log)
     ELSE LET log1 == IF UsesCookies(q) THEN Append(log, CookieLookup(q)) ELSE log
          IN IF ~Parseable(q.url)
               THEN Finish(HttpCatchResult("Invalid URL", d, q.url), log1)
             ELSE /\ netLog' = Append(log1, Op("http", q.url))
                  /\ pc' = "http"
                  /\ UNCHANGED <<result, reply>>

\* performHttpCheck of the JavaScript probe from the DNS answer to
\* httpModule.request: DNS failure, hijack, cookie lookup, URL parsing
AfterDns(q, d, log) ==
  /\ dnsResult' = d
  /\ IF ~d.success THEN Finish(DnsFailureResult(d, q.url), log)
     ELSE IF d.hijacked THEN Finish(DnsHijackResult(d, q.url), log)
     ELSE LET log1 == IF UsesCookies(q) THEN Append(log, CookieLookup(q)) ELSE log
          IN IF ~Parseable(q.url)
               THEN Finish(HttpCatchResult("Invalid URL", d, q.url), log1)
             ELSE /\ netLog' = Append(log1, Op("http", q.url))
                  /\ pc' = "http"
                  /\ UNCHANGED <<result, reply>>

\* JavaScript probe, POST /check -> performHttpCheck -> resolveDns up to its
\* first await: a cached answer not older than its TTL is served, an older
\* one is deleted and the IPv4 query is issued
HttpStart(q) ==
  /\ pc = "idle" /\ build = ImplDns
  /\ Authorized(probeSecret, q)
  /\ RouteOf(build, q) = "http"
  /\ req' = q
  /\ LET hostname == extractHostname(q.url)
         cachedIps == getCachedDns(dnsCache, hostname)
     IN /\ dnsCache' = CacheAfterLookup(dnsCache, hostname)
        /\ IF cachedIps # NoIps
             THEN AfterDns(q, DnsCached(hostname, cachedIps), << >>)
           ELSE /\ netLog' = <<Op("dns4", q.url)>>
                /\ pc' = "dns4"
                /\ UNCHANGED <<dnsResult, result, reply>>
  /\ inFlight' = Others \cup Awaited(pc', netLog')
  /\ UNCHANGED <<lastEvent, build, probeSecret, backoff, resolveCalls, checks, rotationIndex, cookieStores, v4Error, dnsElapsed, endCtx, fr, frResult, sample, verdict, validation>>

\* resolveDns after a resolver answer: hijack check, cache, return
DnsAnswered(ips, ms) ==
  LET hostname == extractHostname(req.url)
      d == DnsFresh(hostname, ips, dnsElapsed + ms)
  IN /\ dnsCache' = IF ShouldCache(d) THEN cacheDnsResult(dnsCache, hostname, ips) ELSE dnsCache
     /\ AfterDns(req, d, netLog)
     /\ inFlight' = Others \cup Awaited(pc', netLog')
     /\ lastEvent' = Event("answer", NoStr)
     /\ UNCHANGED <<build, probeSecret, backoff, resolveCalls, checks, rotationIndex, req, cookieStores, v4Error, dnsElapsed, endCtx, fr, frResult, sample, verdict, validation>>

Dns4Answer(ips, ms) ==
  /\ pc = "dns4"
  /\ Parseable(req.url)
  /\ DnsAnswered(ips, ms)

\* the catch of the IPv4 attempt: the IPv6 query is issued; `stale` are the
\* operations left in flight
Dns4Failed(msg, ms, stale) ==
  /\ pc = "dns4"
  /\ v4Error' = msg
  /\ dnsElapsed' = ms
  /\ netLog' = Append(netLog, Op("dns6", req.url))
  /\ pc' = "dns6"
  /\ inFlight' = stale \cup Awaited(pc', netLog')
  /\ UNCHANGED <<build, probeSecret, backoff, resolveCalls, checks, rotationIndex, req, dnsCache, cookieStores, dnsResult, endCtx, fr, frResult, result, reply, sample, verdict, validation>>

\* resolveDnsWithTimeout(4): resolve4 rejected
Dns4Fail(msg, ms) ==
  /\ Dns4Failed(msg, ms, Others)
  /\ lastEvent' = Event("dnsfail", msg)

\* resolveDnsWithTimeout(4): the timer fired; the promise is rejected and the
\* resolver query is left running
Dns4Timeout ==
  /\ Dns4Failed(DnsTimeoutError, DnsTimeout, inFlight)
  /\ lastEvent' = Event("dnstimeout", DnsTimeoutError)

Dns6Answer(ips, ms) ==
  /\ pc = "dns6"
  /\ Parseable(req.url)
  /\ DnsAnswered(ips, ms)

\* the catch of resolveDns after both attempts failed
Dns6Failed(msg, ms, stale) ==
  /\ pc = "dns6"
  /\ AfterDns(req, DnsFailed(BothFailed(v4Error, msg), dnsElapsed + ms), netLog)
  /\ inFlight' = stale \cup Awaited(pc', netLog')
  /\ UNCHANGED <<build, probeSecret, backoff, resolveCalls, checks, rotationIndex, req, dnsCache, cookieStores, v4Error, dnsElapsed, endCtx, fr, frResult, sample, verdict, validation>>

\* resolveDnsWithTimeout(6): resolve6 rejected
Dns6Fail(msg, ms) ==
  /\ Dns6Failed(msg, ms, Others)
  /\ lastEvent' = Event("dnsfail", msg)

\* resolveDnsWithTimeout(6): the timer fired
Dns6Timeout ==
  /\ Dns6Failed(DnsTimeoutError, DnsTimeout, inFlight)
  /\ lastEvent' = Event("dnstimeout", DnsTimeoutError)

\* variant: the answer of a query whose timer has fired is still cached
ResolverLateCaches(o) ==
  /\ o \in Others
  /\ inFlight' = inFlight \ {o}
  /\ dnsCache' = cacheDnsResult(dnsCache, extractHostname(o.url), CleanV4)
  /\ UNCHANGED <<build, probeSecret, backoff, resolveCalls, checks, rotationIndex, pc, req, cookieStores,
                 netLog, v4Error, dnsElapsed, dnsResult, endCtx, fr, frResult, lastEvent, result,
                 reply, sample, verdict, validation>>

\* the resolver settles a query whose timer has fired: resolve / reject of
\* the settled promise change nothing
ResolverLate(o) ==
  /\ o \in Others
  /\ inFlight' = inFlight \ {o}
  /\ UNCHANGED <<build, probeSecret, backoff, resolveCalls, checks, rotationIndex, pc, req, dnsCache, cookieStores, netLog, v4Error, dnsElapsed, dnsResult,
                 endCtx, fr, frResult, lastEvent, result, reply, sample, verdict, validation>>

\* what the check returns once followRedirects has returned r
AfterRedirects(ctx, r, config) ==
  IF build = ImplDns THEN EndAfterRedirects(ctx, r, config, dnsResult) ELSE TsAssemble(config, r)

\* followRedirects from a loop head or an answered hop (outcome s) to its next
\* await or to its return; on return the caller assembles the result.
\* performSingleRequest resolves at once, without a request, when `new URL`
\* throws.
FrRun(s, log, ctx, config) ==
  IF s.next = "request" /\ Parseable(s.fr.currentUrl)
    THEN /\ fr' = s.fr
         /\ netLog' = Append(log, Op("hop", s.fr.currentUrl))
         /\ pc' = "hop"
         /\ UNCHANGED <<frResult, result, reply>>
  ELSE LET s2 == IF s.next = "request"
                   THEN FrAfterHop(s.fr, HopFailure("Invalid URL", 0), MAX_REDIRECTS)
                 ELSE s
       IN /\ fr' = s2.fr
          /\ frResult' = s2.result
          /\ Finish(AfterRedirects(ctx, s2.result, config), log)

\* JavaScript probe: res.on('end') of the first request
HttpEnd(code, loc, headers, body, ms, setCookieHeaders) ==
  /\ pc = "http"
  /\ sample' = Sample(code, headers, body, ms)
  /\ LET ctx == EndCtx(code, headers, body, ms, req, dnsResult)
     IN /\ endCtx' = ctx
        /\ cookieStores' = IF UsesCookies(req) /\ setCookieHeaders # NoSetCookie
                             THEN storeCookies(cookieStores, req.monitorId, req.url, setCookieHeaders,
                                               CookieTtlSeconds * 1000)
                           ELSE cookieStores
        /\ IF code \in REDIRECT_STATUS_CODES /\ loc # NoLocation
             THEN FrRun(FrLoopHead(FrInit(req.url), MAX_REDIRECTS), netLog, ctx, req)
           ELSE /\ Finish(EndResult(ctx, dnsResult, req.url), netLog)
                /\ UNCHANGED <<fr, frResult>>
  /\ inFlight' = Others \cup Awaited(pc', netLog')
  /\ lastEvent' = Event("answer", NoStr)
  /\ UNCHANGED <<build, probeSecret, backoff, resolveCalls, checks, rotationIndex, req, dnsCache, v4Error, dnsElapsed, dnsResult, verdict, validation>>

\* JavaScript probe: req.on('error') of the first request
HttpError(msg, ms) ==
  /\ pc = "http"
  /\ Finish(HttpErrorResult(msg, ms, dnsResult, req.url), netLog)
  /\ inFlight' = Others \cup Awaited(pc', netLog')
  /\ lastEvent' = Event("error", JoinWords(msg))
  /\ UNCHANGED <<build, probeSecret, backoff, resolveCalls, checks, rotationIndex, req, dnsCache, cookieStores, v4Error, dnsElapsed, dnsResult, endCtx, fr, frResult, sample, verdict, validation>>

\* JavaScript probe: req.on('timeout') of the first request
HttpTimeout ==
  /\ pc = "http"
  /\ Finish(HttpTimeoutResult(DefaultHttpTimeout, dnsResult, req.url),
            Append(netLog, Op("destroy", req.url)))
  /\ inFlight' = Others \cup Awaited(pc', netLog')
  /\ lastEvent' = Event("timeout", NoStr)
  /\ UNCHANGED <<build, probeSecret, backoff, resolveCalls, checks, rotationIndex, req, dnsCache, cookieStores, v4Error, dnsElapsed, dnsResult, endCtx, fr, frResult, sample, verdict, validation>>

\* TypeScript probe, POST /check -> performTcpCheck
TsTcp(q) ==
  /\ pc = "idle" /\ build = ImplTs
  /\ Authorized(probeSecret, q)
  /\ RouteOf(build, q) = "tcp"
  /\ req' = q
  /\ Finish(TsTcpResult, << >>)
  /\ UNCHANGED <<inFlight, lastEvent, build, probeSecret, backoff, resolveCalls, checks, rotationIndex, dnsCache, cookieStores, v4Error, dnsElapsed, dnsResult, endCtx, fr, frResult, sample, verdict, validation>>

\* TypeScript probe, POST /check -> performHttpCheck -> followRedirects up to
\* its first await
TsHttpStart(q) ==
  /\ pc = "idle" /\ build = ImplTs
  /\ Authorized(probeSecret, q)
  /\ RouteOf(build, q) = "http"
  /\ req' = q
  /\ FrRun(FrLoopHead(FrInit(q.url), MAX_REDIRECTS), << >>, NoCtx, q)
  /\ inFlight' = Others \cup Awaited(pc', netLog')
  /\ UNCHANGED <<lastEvent, build, probeSecret, backoff, resolveCalls, checks, rotationIndex, dnsCache, cookieStores, v4Error, dnsElapsed, dnsResult, endCtx, sample, verdict, validation>>

\* the timeout the build hands to performSingleRequest
HopTimeoutMs == IF build = ImplDns THEN DefaultHttpTimeout ELSE TsHopTimeout

\* performSingleRequest resolved with a response (both builds)
HopAnswer(code, loc, body, ms) ==
  /\ pc = "hop"
  /\ sample' = Sample(code, NoHeaders, body, ms)
  /\ FrRun(FrAfterHop(fr, HopResponse(code, loc, body, ms), MAX_REDIRECTS), netLog, endCtx, req)
  /\ inFlight' = Others \cup Awaited(pc', netLog')
  /\ lastEvent' = Event("answer", NoStr)
  /\ UNCHANGED <<build, probeSecret, backoff, resolveCalls, checks, rotationIndex, req, dnsCache, cookieStores, v4Error, dnsElapsed, dnsResult, endCtx, verdict, validation>>

\* performSingleRequest: req.on('error')
HopError(msg, ms) ==
  /\ pc = "hop"
  /\ FrRun(FrAfterHop(fr, HopFailure(JoinWords(msg), ms), MAX_REDIRECTS), netLog, endCtx, req)
  /\ inFlight' = Others \cup Awaited(pc', netLog')
  /\ lastEvent' = Event("error", JoinWords(msg))
  /\ UNCHANGED <<build, probeSecret, backoff, resolveCalls, checks, rotationIndex, req, dnsCache, cookieStores, v4Error, dnsElapsed, dnsResult, endCtx, sample, verdict, validation>>

\* performSingleRequest: req.on('timeout')
HopTimeout ==
  /\ pc = "hop"
  /\ FrRun(FrAfterHop(fr, HopFailure("Request timeout", HopTimeoutMs), MAX_REDIRECTS),
           Append(netLog, Op("destroy", fr.currentUrl)), endCtx, req)
  /\ inFlight' = Others \cup Awaited(pc', netLog')
  /\ lastEvent' = Event("timeout", NoStr)
  /\ UNCHANGED <<build, probeSecret, backoff, resolveCalls, checks, rotationIndex, req, dnsCache, cookieStores, v4Error, dnsElapsed, dnsResult, endCtx, sample, verdict, validation>>

\* the check is over; the DNS cache and the cookie stores stay
Reset ==
  /\ pc = "responded"
  /\ pc' = "idle"
  /\ req' = NoReq
  /\ netLog' = << >>
  /\ v4Error' = NoStr
  /\ dnsElapsed' = 0
  /\ inFlight' = {}
  /\ dnsResult' = NoDns
  /\ endCtx' = NoCtx
  /\ fr' = NoFr
  /\ frResult' = NoFrResult
  /\ lastEvent' = NoEvent
  /\ result' = NoResult
  /\ reply' = NoReply
  /\ sample' = NoSample
  /\ UNCHANGED <<build, probeSecret, backoff, resolveCalls, checks, rotationIndex, dnsCache, cookieStores, verdict, validation>>

\* time passes between two checks: every cache entry and cookie store ages
Elapse(ms) ==
  /\ pc = "idle"
  /\ \E h \in DnsHostnames : dnsCache[h] # NoEntry
  /\ \A h \in DnsHostnames : dnsCache[h] # NoEntry => dnsCache[h].age + ms <= MaxAge
  /\ \A m \in DOMAIN cookieStores : cookieStores[m].exists => cookieStores[m].idle + ms <= MaxAge
  /\ dnsCache' = [h \in DnsHostnames |->
                    IF dnsCache[h] = NoEntry THEN NoEntry ELSE [dnsCache[h] EXCEPT !.age = @ + ms]]
  /\ cookieStores' = [m \in DOMAIN cookieStores |->
                        IF cookieStores[m].exists
                          THEN [cookieStores[m] EXCEPT !.idle = @ + ms] ELSE cookieStores[m]]
  /\ UNCHANGED <<build, probeSecret, backoff, resolveCalls, checks, rotationIndex, pc, req, netLog, v4Error, dnsElapsed, inFlight, dnsResult, endCtx, fr,
                 frResult, lastEvent, result, reply, sample, verdict, validation>>

RedirectReplies == {<<c, l>> : c \in RedirectAnswers, l \in Locations \cup {NoLocation}}

\* response headers the checks draw from
CfHeaders == ("server" :> <<"cloudflare">>)
RetryHeaders == ("retry-after" :> <<"60">>)
\* (statusCode, location, headers, body) of the redirect answers to the
\* first request
FirstRedirectReplies ==
  {<<a[1], a[2], NoHeaders, NoBody>> : a \in RedirectReplies}
    \cup {<<301, GeoLocation, CfHeaders, BodyChallenge>>}
    \cup {<<c, NoLocation, CfHeaders, BodyChallenge>> : c \in RedirectAnswers}
\* (statusCode, headers, body) of the other answers to the first request
FinalReplies ==
  {<<200, NoHeaders, BodyOk>>, <<204, NoHeaders, NoBody>>, <<500, NoHeaders, BodyOk>>,
   <<403, NoHeaders, NoBody>>, <<403, NoHeaders, BodySucuri>>, <<403, CfHeaders, BodyChallenge>>,
   <<429, NoHeaders, NoBody>>, <<429, CfHeaders, BodyTooMany>>, <<429, RetryHeaders, NoBody>>}
\* (statusCode, body) of the non-redirect answers to a hop
HopFinalReplies ==
  {<<200, BodyOk>>, <<204, NoBody>>, <<500, BodyOk>>, <<403, NoBody>>, <<403, BodyDenied>>,
   <<429, BodyTooMany>>}
\* (statusCode, location, body) of the redirect answers to a hop; the body
\* is sent but drained unread
HopRedirectReplies ==
  {<<a[1], a[2], NoBody>> : a \in RedirectReplies}
    \cup {<<c, NoLocation, BodyChallenge>> : c \in RedirectAnswers}

Next ==
  \/ Health
  \/ \E q \in Requests : Unauthorized(q)
  \/ \E q \in Requests : BadRequest(q)
  \/ \E q \in Requests : TcpStart(q)
  \/ \E ms \in TcpLatencies : TcpConnected(ms)
  \/ \E msg \in NetErrors, ms \in TcpLatencies : TcpError(msg, ms)
  \/ TcpTimeout
  \/ \E q \in Requests : HttpStart(q)
  \/ \E ips \in V4Answers, ms \in Latencies : Dns4Answer(ips, ms)
  \/ \E msg \in Dns4Errors, ms \in Latencies : Dns4Fail(msg, ms)
  \/ Dns4Timeout
  \/ \E ips \in V6Answers, ms \in Latencies : Dns6Answer(ips, ms)
  \/ \E msg \in Dns6Errors, ms \in Latencies : Dns6Fail(msg, ms)
  \/ Dns6Timeout
  \/ \E o \in inFlight : ResolverLate(o)
  \/ \E ms \in ElapseSteps : Elapse(ms)
  \/ \E a \in FirstRedirectReplies, ms \in Latencies, sc \in {NoSetCookie, <<SessionCookie>>} :
       HttpEnd(a[1], a[2], a[3], a[4], ms, sc)
  \/ \E a \in FinalReplies, ms \in Latencies, sc \in {NoSetCookie, <<SessionCookie>>} :
       HttpEnd(a[1], NoLocation, a[2], a[3], ms, sc)
  \/ \E msg \in NetErrors, ms \in Latencies : HttpError(msg, ms)
  \/ HttpTimeout
  \/ \E q \in Requests : TsTcp(q)
  \/ \E q \in Requests : TsHttpStart(q)
  \/ \E a \in HopRedirectReplies, ms \in Latencies : HopAnswer(a[1], a[2], a[3], ms)
  \/ \E a \in HopFinalReplies, ms \in Latencies : HopAnswer(a[1], NoLocation, a[2], ms)
  \/ \E msg \in NetErrors, ms \in Latencies : HopError(msg, ms)
  \/ HopTimeout
  \/ Reset

Spec == Init /\ [][Next]_vars

\* the probe started with or without PROBE_SECRET in its environment
AuthInit ==
  /\ build \in Impls
  /\ probeSecret \in {NoStr, Secret}
  /\ pc = "idle"
  /\ req = NoReq
  /\ dnsCache = [h \in DnsHostnames |-> NoEntry]
  /\ cookieStores = [m \in {MonitorId} |-> NoStore]
  /\ netLog = << >>
  /\ v4Error = NoStr
  /\ dnsElapsed = 0
  /\ inFlight = {}
  /\ dnsResult = NoDns
  /\ endCtx = NoCtx
  /\ fr = NoFr
  /\ frResult = NoFrResult
  /\ lastEvent = NoEvent
  /\ result = NoResult
  /\ reply = NoReply
  /\ sample = NoSample
  /\ verdict = NoVerdict
  /\ validation = NoValidation
  /\ resolveCalls = << >>
  /\ checks = NoChecks
  /\ rotationIndex = 0
  /\ backoff = NoBackoff

AuthSpec == AuthInit /\ [][Next]_vars

\* ------------------------------------------------- checks run side by side
\* Two POST /check requests served by the JavaScript probe at the same time.
\* Node runs one callback at a time: a step is a callback of one check, from
\* the event that starts it to its next await on the network, and the steps
\* of the two checks interleave freely.  dnsCache, cookieStores and
\* rotationIndex are the module-level objects the checks share.
ALL_USER_AGENTS == 1..UserAgentCount
\* getUserAgent('rotate'): the agent it returns and the index it leaves
getUserAgent(index) == (index % UserAgentCount) + 1

ConcRequests ==
  {q \in HttpRequests : q.url = StartUrl /\ (q.degradedThresholdMs = 1 \/ q.enableCookies)}
\* what the DNS cache and the cookie stores may hold when the checks start
ConcCaches ==
  LET empty == [h \in DnsHostnames |-> NoEntry]
      cached == cacheDnsResult(empty, extractHostname(StartUrl), CleanV4)
  IN {empty, cached,
      [cached EXCEPT ![extractHostname(StartUrl)].age = DNS_CACHE_TTL + 1]}
ConcStores ==
  {[m \in {MonitorId} |-> NoStore],
   storeCookies([m \in {MonitorId} |-> NoStore], MonitorId, StartUrl, <<SessionCookie>>,
                CookieTtlSeconds * 1000)}

ConcInit ==
  /\ build = ImplDns
  /\ probeSecret = Secret
  /\ pc = "idle"
  /\ req = NoReq
  /\ dnsCache \in ConcCaches
  /\ cookieStores \in ConcStores
  /\ netLog = << >>
  /\ v4Error = NoStr
  /\ dnsElapsed = 0
  /\ inFlight = {}
  /\ dnsResult = NoDns
  /\ endCtx = NoCtx
  /\ fr = NoFr
  /\ frResult = NoFrResult
  /\ lastEvent = NoEvent
  /\ result = NoResult
  /\ reply = NoReply
  /\ sample = NoSample
  /\ verdict = NoVerdict
  /\ validation = NoValidation
  /\ resolveCalls = << >>
  /\ checks = NoChecks
  /\ rotationIndex = 0
  /\ backoff = NoBackoff

\* the steps of check c leave the single-check variables alone
ConcFrame ==
  UNCHANGED <<build, probeSecret, backoff, pc, req, netLog, v4Error, dnsElapsed, inFlight, dnsResult,
              endCtx, fr, frResult, lastEvent, result, reply, sample, verdict, validation,
              resolveCalls>>

\* variant: resolveDns looks at the cache again when the resolver answers
\* and serves the entry another check has written meanwhile
ConcResolvedCoalescing(cache, hostname, ips, ms) ==
  IF getCachedDns(cache, hostname) # NoIps
    THEN DnsCached(hostname, getCachedDns(cache, hostname))
  ELSE DnsFresh(hostname, ips, ms)

\* what resolveDns returns when the resolver answers: the cache is not read
\* again
ConcResolved(cache, hostname, ips, ms) == DnsFresh(hostname, ips, ms)

\* performHttpCheck of check c from the DNS result d to httpModule.request
\* (k: the locals of c so far): failure and hijack return; otherwise the
\* Cookie header is looked up and getHeadersObject('rotate') takes the next
\* User-Agent
ConcAfterDns(c, k, d) ==
  LET k1 == [k EXCEPT !.dnsResult = d]
  IN IF ~d.success
       THEN /\ checks' = [checks EXCEPT ![c] = [k1 EXCEPT !.pc = "done",
                                                          !.result = DnsFailureResult(d, k.req.url)]]
            /\ UNCHANGED rotationIndex
     ELSE IF d.hijacked
       THEN /\ checks' = [checks EXCEPT ![c] = [k1 EXCEPT !.pc = "done",
                                                          !.result = DnsHijackResult(d, k.req.url)]]
            /\ UNCHANGED rotationIndex
     ELSE /\ checks' = [checks EXCEPT ![c] =
                          [k1 EXCEPT !.pc = "http",
                                     !.cookieHeaderValue =
                                        IF UsesCookies(k.req)
                                          THEN getCookieHeader(cookieStores, k.req.monitorId,
                                                               k.req.url)
                                        ELSE NoCookieHeader,
                                     !.cookieSent =
                                        UsesCookies(k.req)
                                        /\ getCookieHeader(cookieStores, k.req.monitorId,
                                                           k.req.url) # NoCookieHeader,
                                     !.userAgent = getUserAgent(rotationIndex)]]
          /\ rotationIndex' = rotationIndex + 1

\* POST /check -> performHttpCheck -> resolveDns up to its first await
ConcStart(c, q) ==
  /\ checks[c].pc = "idle"
  /\ LET hostname == extractHostname(q.url)
         cachedIps == getCachedDns(dnsCache, hostname)
         k == [checks[c] EXCEPT !.req = q, !.startCache = dnsCache]
     IN /\ dnsCache' = CacheAfterLookup(dnsCache, hostname)
        /\ IF cachedIps # NoIps
             THEN ConcAfterDns(c, k, DnsCached(hostname, cachedIps))
           ELSE /\ checks' = [checks EXCEPT ![c] = [k EXCEPT !.pc = "dns4"]]
                /\ UNCHANGED rotationIndex
  /\ UNCHANGED cookieStores
  /\ ConcFrame

\* the resolver answers the IPv4 or the IPv6 query of check c
ConcDnsAnswer(c, ips, ms) ==
  /\ checks[c].pc \in {"dns4", "dns6"}
  /\ ips \in (IF checks[c].pc = "dns4" THEN V4Answers ELSE V6Answers)
  /\ LET k == [checks[c] EXCEPT !.dns = DnsAnswerEvent(ips, checks[c].dnsElapsed + ms)]
         hostname == extractHostname(k.req.url)
         d == ConcResolved(dnsCache, hostname, ips, k.dns.ms)
     IN /\ dnsCache' = IF ShouldCache(d) THEN cacheDnsResult(dnsCache, hostname, ips)
                       ELSE dnsCache
        /\ ConcAfterDns(c, k, d)
  /\ UNCHANGED cookieStores
  /\ ConcFrame

\* the resolver rejects the IPv4 query (the IPv6 query is issued) or the
\* IPv6 query (resolveDns returns the IPv4 error) of check c
ConcDnsFail(c, msg, ms) ==
  /\ checks[c].pc \in {"dns4", "dns6"}
  /\ msg \in (IF checks[c].pc = "dns4" THEN Dns4Errors ELSE Dns6Errors)
  /\ IF checks[c].pc = "dns4"
       THEN /\ checks' = [checks EXCEPT ![c] = [@ EXCEPT !.pc = "dns6", !.v4Error = msg,
                                                         !.dnsElapsed = ms]]
            /\ UNCHANGED rotationIndex
     ELSE LET error == BothFailed(checks[c].v4Error, msg)
              k == [checks[c] EXCEPT !.dns = DnsFailEvent(error, checks[c].dnsElapsed + ms)]
          IN ConcAfterDns(c, k, DnsFailed(error, k.dns.ms))
  /\ UNCHANGED <<dnsCache, cookieStores>>
  /\ ConcFrame

\* res.on('end') of check c for a response that is not a redirect
ConcHttpEnd(c, code, headers, body, ms, setCookieHeaders) ==
  /\ checks[c].pc = "http"
  /\ LET k == checks[c]
         ctx == EndCtx(code, headers, body, ms, k.req, k.dnsResult)
     IN /\ cookieStores' = IF UsesCookies(k.req) /\ setCookieHeaders # NoSetCookie
                             THEN storeCookies(cookieStores, k.req.monitorId, k.req.url,
                                               setCookieHeaders, CookieTtlSeconds * 1000)
                           ELSE cookieStores
        /\ checks' = [checks EXCEPT ![c] =
                        [k EXCEPT !.pc = "done",
                                  !.http = [HttpAnswerEvent(code, headers, body, ms)
                                              EXCEPT !.setCookie = setCookieHeaders],
                                  !.result = EndResult(ctx, k.dnsResult, k.req.url)]]
  /\ UNCHANGED <<dnsCache, rotationIndex>>
  /\ ConcFrame

\* req.on('error') of check c
ConcHttpError(c, msg, ms) ==
  /\ checks[c].pc = "http"
  /\ LET k == checks[c]
     IN checks' = [checks EXCEPT ![c] =
                     [k EXCEPT !.pc = "done", !.http = HttpErrorEvent(msg, ms),
                               !.result = HttpErrorResult(msg, ms, k.dnsResult, k.req.url)]]
  /\ UNCHANGED <<dnsCache, cookieStores, rotationIndex>>
  /\ ConcFrame

ConcReplies == {<<200, NoHeaders, BodyOk>>, <<500, NoHeaders, BodyOk>>}
ConcNext ==
  \E c \in CheckIds :
    \/ \E q \in ConcRequests : ConcStart(c, q)
    \/ \E ips \in V4Answers \cup V6Answers, ms \in Latencies : ConcDnsAnswer(c, ips, ms)
    \/ \E msg \in Dns4Errors \cup Dns6Errors, ms \in Latencies : ConcDnsFail(c, msg, ms)
    \/ \E a \in ConcReplies, ms \in Latencies, sc \in {NoSetCookie, <<SessionCookie>>} :
         ConcHttpEnd(c, a[1], a[2], a[3], ms, sc)
    \/ \E msg \in NetErrors, ms \in Latencies : ConcHttpError(c, msg, ms)

ConcSpec == ConcInit /\ [][ConcNext]_vars

\* --------------------------------------------- checks of several monitors
\* Checks of two monitors, of a monitor with cookies disabled and of a
\* request without monitorId, served by the JavaScript probe one after the
\* other or side by side.  The name is in the DNS cache, so each check goes
\* from POST /check straight to its request.
OtherMonitorId == "m2"
Monitors == {MonitorId, OtherMonitorId}
CookieCheckIds == {1, 2, 3}
\* (monitorId, enableCookies) of the requests
CookieRequests ==
  {[MkReq(StartUrl, NoStr, FALSE, NullStatus, 0, o[2], TRUE, TRUE) EXCEPT !.monitorId = o[1]] :
     o \in {<<MonitorId, TRUE>>, <<OtherMonitorId, TRUE>>, <<MonitorId, FALSE>>, <<NoStr, TRUE>>}}
\* the Set-Cookie headers of the responses
SetCookieReplies == {NoSetCookie, <<SessionCookie>>, <<RenewedCookie, GarbageCookie>>}

CookieInit ==
  /\ build = ImplDns
  /\ probeSecret = Secret
  /\ pc = "idle"
  /\ req = NoReq
  /\ dnsCache = cacheDnsResult([h \in DnsHostnames |-> NoEntry], extractHostname(StartUrl), CleanV4)
  /\ cookieStores = [m \in Monitors \cup {NoStr} |-> NoStore]
  /\ netLog = << >>
  /\ v4Error = NoStr
  /\ dnsElapsed = 0
  /\ inFlight = {}
  /\ dnsResult = NoDns
  /\ endCtx = NoCtx
  /\ fr = NoFr
  /\ frResult = NoFrResult
  /\ lastEvent = NoEvent
  /\ result = NoResult
  /\ reply = NoReply
  /\ sample = NoSample
  /\ verdict = NoVerdict
  /\ validation = NoValidation
  /\ resolveCalls = << >>
  /\ checks = [c \in CookieCheckIds |-> NoCheck]
  /\ rotationIndex = 0
  /\ backoff = NoBackoff

CookieNext ==
  \E c \in CookieCheckIds :
    \/ \E q \in CookieRequests : ConcStart(c, q)
    \/ \E sc \in SetCookieReplies : ConcHttpEnd(c, 200, NoHeaders, BodyOk, 1, sc)

CookieSpec == CookieInit /\ [][CookieNext]_vars

\* ------------------------------- the events of one HTTP request, in any order
\* The promise of performHttpCheck (JavaScript probe) from httpModule.request
\* on: the end, error and timeout handlers of the request run once each, in
\* any order, the end handler possibly across `await followRedirects`.
RaceRequests == {q \in HttpRequests : q.url = StartUrl}
RaceInit ==
  /\ build = ImplDns
  /\ probeSecret = Secret
  /\ pc = "http"
  /\ req \in RaceRequests
  /\ dnsCache = cacheDnsResult([h \in DnsHostnames |-> NoEntry], extractHostname(StartUrl), CleanV4)
  /\ cookieStores = [m \in {MonitorId} |-> NoStore]
  /\ netLog = <<Op("dns4", StartUrl), Op("http", StartUrl)>>
  /\ v4Error = NoStr
  /\ dnsElapsed = 0
  /\ inFlight = {Op("http", StartUrl)}
  /\ dnsResult = DnsFresh(extractHostname(StartUrl), CleanV4, 1)
  /\ endCtx = NoCtx
  /\ fr = NoFr
  /\ frResult = NoFrResult
  /\ lastEvent = Event("answer", NoStr)
  /\ result = NoResult
  /\ reply = NoReply
  /\ sample = NoSample
  /\ verdict = NoVerdict
  /\ validation = NoValidation
  /\ resolveCalls = << >>
  /\ checks = NoChecks
  /\ rotationIndex = 0
  /\ backoff = NoBackoff

\* the handler of `event` has called safeResolve
Fired(event) == \E i \in 1..Len(resolveCalls) : resolveCalls[i].event = event

\* variant: safeResolve without its `resolved` flag
safeResolveUnguarded(event, r) ==
  /\ resolveCalls' = Append(resolveCalls, [event |-> event, result |-> r])
  /\ result' = r
  /\ reply' = ReplyResult(r)

\* safeResolve(result) called by the handler of `event`: the promise (and
\* with it POST /check) takes the result of the first call only
safeResolve(event, r) ==
  /\ resolveCalls' = Append(resolveCalls, [event |-> event, result |-> r])
  /\ IF resolveCalls = << >>
       THEN result' = r /\ reply' = ReplyResult(r)
     ELSE UNCHANGED <<result, reply>>

\* res.on('end'): up to `await followRedirects`, or to its safeResolve
RaceEnd(code, loc, headers, body, ms) ==
  /\ pc = "http"
  /\ sample' = Sample(code, headers, body, ms)
  /\ LET ctx == EndCtx(code, headers, body, ms, req, dnsResult)
     IN /\ endCtx' = ctx
        /\ IF code \in REDIRECT_STATUS_CODES /\ loc # NoLocation
             THEN /\ pc' = "awaiting"
                  /\ UNCHANGED <<result, reply, resolveCalls>>
           ELSE /\ pc' = "ended"
                /\ safeResolve("end", EndResult(ctx, dnsResult, req.url))
  /\ UNCHANGED <<build, probeSecret, backoff, checks, rotationIndex, req, dnsCache, cookieStores, netLog, v4Error, dnsElapsed,
                 inFlight, dnsResult, fr, frResult, lastEvent, verdict, validation>>

\* what followRedirects returns when the redirect target answers at once
RaceFrResults ==
  {FrAfterHop(FrLoopHead(FrInit(StartUrl), MAX_REDIRECTS).fr,
              HopResponse(a[1], NoLocation, a[2], ms), MAX_REDIRECTS).result :
     a \in HopFinalReplies, ms \in Latencies}

\* res.on('end') after `await followRedirects` returned r
RaceRedirectsFollowed(r) ==
  /\ pc = "awaiting"
  /\ frResult' = r
  /\ pc' = "ended"
  /\ safeResolve("end", EndAfterRedirects(endCtx, r, req, dnsResult))
  /\ UNCHANGED <<build, probeSecret, backoff, checks, rotationIndex, req, dnsCache, cookieStores, netLog, v4Error, dnsElapsed,
                 inFlight, dnsResult, endCtx, fr, lastEvent, sample, verdict, validation>>

\* req.on('error')
RaceError(msg, ms) ==
  /\ ~Fired("error")
  /\ safeResolve("error", HttpErrorResult(msg, ms, dnsResult, req.url))
  /\ UNCHANGED <<build, probeSecret, backoff, checks, rotationIndex, pc, req, dnsCache, cookieStores, netLog, v4Error,
                 dnsElapsed, inFlight, dnsResult, endCtx, fr, frResult, lastEvent, sample,
                 verdict, validation>>

\* req.on('timeout'): req.destroy(), then safeResolve
RaceTimeout ==
  /\ ~Fired("timeout")
  /\ netLog' = Append(netLog, Op("destroy", req.url))
  /\ inFlight' = {}
  /\ safeResolve("timeout", HttpTimeoutResult(DefaultHttpTimeout, dnsResult, req.url))
  /\ UNCHANGED <<build, probeSecret, backoff, checks, rotationIndex, pc, req, dnsCache, cookieStores, v4Error, dnsElapsed,
                 dnsResult, endCtx, fr, frResult, lastEvent, sample, verdict, validation>>

RaceNext ==
  \/ \E a \in FirstRedirectReplies, ms \in Latencies : RaceEnd(a[1], a[2], a[3], a[4], ms)
  \/ \E a \in FinalReplies, ms \in Latencies : RaceEnd(a[1], NoLocation, a[2], a[3], ms)
  \/ \E r \in RaceFrResults : RaceRedirectsFollowed(r)
  \/ \E msg \in NetErrors, ms \in Latencies : RaceError(msg, ms)
  \/ RaceTimeout

RaceSpec == RaceInit /\ [][RaceNext]_vars

\* ------------------------------------------- the classifier library alone
\* detectGeoBlocking and detectRateLimit are pure: they are applied to every
\* response of the sets below, outside of any check.
ClassifierStatuses == {200, 302, 403, 429, 503}
ClassifierHeaders ==
  {NoHeaders,
   ("cf-ray" :> <<"8a1b2c3d4e5f">>),
   ("server" :> <<"Cloudflare">>),
   ("x-cdn" :> <<"Incapsula">>),
   ("x-geo-block" :> <<"1">>),
   ("retry-after" :> <<"0">>),
   ("retry-after" :> <<"60">>),
   ("retry-after" :> <<"soon">>),
   ("x-ratelimit-limit" :> <<"60">> @@ "x-ratelimit-remaining" :> <<"0">>),
   ("x-ratelimit-reset" :> <<"160">>)}
BodyVendorWord == <<"Cloudflare">>
ClassifierBodies == Bodies \cup {BodyVendorWord}
ClassifierTimes == {50, 150}
ClassifierSamples ==
  {Sample(c, h, b, t) : c \in ClassifierStatuses, h \in ClassifierHeaders,
                        b \in ClassifierBodies, t \in ClassifierTimes}

ClassifierInit ==
  /\ build = ImplDns
  /\ probeSecret = Secret
  /\ pc = "idle"
  /\ req = NoReq
  /\ dnsCache = [h \in DnsHostnames |-> NoEntry]
  /\ cookieStores = [m \in {MonitorId} |-> NoStore]
  /\ netLog = << >>
  /\ v4Error = NoStr
  /\ dnsElapsed = 0
  /\ inFlight = {}
  /\ dnsResult = NoDns
  /\ endCtx = NoCtx
  /\ fr = NoFr
  /\ frResult = NoFrResult
  /\ lastEvent = NoEvent
  /\ result = NoResult
  /\ reply = NoReply
  /\ sample \in ClassifierSamples
  /\ verdict = NoVerdict
  /\ validation = NoValidation
  /\ resolveCalls = << >>
  /\ checks = NoChecks
  /\ rotationIndex = 0
  /\ backoff = NoBackoff

\* detectGeoBlocking(statusCode, headers, body, responseTime), with the
\* verdict of each classifier of its chain on the normalised input, and
\* detectRateLimit(statusCode, headers, body) of rateLimitDetection.js
Classify ==
  /\ ~verdict.classified
  /\ LET headersLower == HeadersLower(sample.headers)
         bodyLower == toLowerCase(sample.body)
     IN verdict' =
          [classified |-> TRUE,
           primary |-> detectGeoBlocking(sample.statusCode, sample.headers, sample.body,
                                         sample.responseTime),
           cloudflare |-> detectCloudflare(sample.statusCode, headersLower, bodyLower),
           waf |-> detectWAF(sample.statusCode, headersLower, bodyLower),
           rateLimit |-> GeoBlock_detectRateLimit(sample.statusCode, headersLower, bodyLower),
           general |-> detectGeneralGeoBlocking(sample.statusCode, headersLower, bodyLower,
                                                sample.responseTime),
           rateLimitInfo |-> detectRateLimit(sample.statusCode, sample.headers, sample.body)]
  /\ UNCHANGED <<build, probeSecret, backoff, resolveCalls, checks, rotationIndex, pc, req, dnsCache, cookieStores, netLog, v4Error, dnsElapsed, inFlight,
                 dnsResult, endCtx, fr, frResult, lastEvent, result, reply, sample, validation>>

ClassifierNext == Classify

ClassifierSpec == ClassifierInit /\ [][ClassifierNext]_vars

\* ------------------------------------------- the validation library alone
\* validateContent is pure: it is applied to every content and config of the
\* sets below, outside of any check.
ValidationContents == {BodyOk, BodyDenied, << >>}
ValidationTypes == {"hash", "checksum"}
ExpectedHashes ==
  {NoStr, Digest("sha256", BodyOk), Digest("md5", BodyOk), Digest("sha256", << >>)}
Algorithms == {NoStr, "sha256", "md5"}
DetectChangesValues == {NoStr, "false", "true"}
ValidationConfigs ==
  {ValidationConfig(e, ty, h, a, dc) :
     e \in BOOLEAN, ty \in ValidationTypes, h \in ExpectedHashes, a \in Algorithms,
     dc \in DetectChangesValues}

ValidationInit ==
  /\ build = ImplDns
  /\ probeSecret = Secret
  /\ pc = "idle"
  /\ req = NoReq
  /\ dnsCache = [h \in DnsHostnames |-> NoEntry]
  /\ cookieStores = [m \in {MonitorId} |-> NoStore]
  /\ netLog = << >>
  /\ v4Error = NoStr
  /\ dnsElapsed = 0
  /\ inFlight = {}
  /\ dnsResult = NoDns
  /\ endCtx = NoCtx
  /\ fr = NoFr
  /\ frResult = NoFrResult
  /\ lastEvent = NoEvent
  /\ result = NoResult
  /\ reply = NoReply
  /\ sample = NoSample
  /\ verdict = NoVerdict
  /\ \E content \in ValidationContents, config \in ValidationConfigs :
       validation = [NoValidation EXCEPT !.content = content, !.config = config]
  /\ resolveCalls = << >>
  /\ checks = NoChecks
  /\ rotationIndex = 0
  /\ backoff = NoBackoff

Validate ==
  /\ ~validation.validated
  /\ validation' = [validation EXCEPT !.validated = TRUE,
                                      !.result = validateContent(validation.content,
                                                                 validation.config)]
  /\ UNCHANGED <<build, probeSecret, backoff, resolveCalls, checks, rotationIndex, pc, req, dnsCache, cookieStores, netLog, v4Error, dnsElapsed, inFlight,
                 dnsResult, endCtx, fr, frResult, lastEvent, result, reply, sample, verdict>>

ValidationNext == Validate

ValidationSpec == ValidationInit /\ [][ValidationNext]_vars

\* --------------------------------------------- calculateBackoff, called alone
BackoffInit ==
  /\ build = ImplDns
  /\ probeSecret = Secret
  /\ pc = "idle"
  /\ req = NoReq
  /\ dnsCache = [h \in DnsHostnames |-> NoEntry]
  /\ cookieStores = [m \in {MonitorId} |-> NoStore]
  /\ netLog = << >>
  /\ v4Error = NoStr
  /\ dnsElapsed = 0
  /\ inFlight = {}
  /\ dnsResult = NoDns
  /\ endCtx = NoCtx
  /\ fr = NoFr
  /\ frResult = NoFrResult
  /\ lastEvent = NoEvent
  /\ result = NoResult
  /\ reply = NoReply
  /\ sample = NoSample
  /\ verdict = NoVerdict
  /\ validation = NoValidation
  /\ resolveCalls = << >>
  /\ checks = NoChecks
  /\ rotationIndex = 0
  /\ \E info \in {[NotRateLimited EXCEPT !.retryAfter = r] : r \in BackoffRetryAfters},
        interval \in BackoffIntervals, count \in BackoffCounts :
       backoff = [NoBackoff EXCEPT !.rateLimitInfo = info, !.currentInterval = interval,
                                   !.consecutiveRateLimits = count]

CalculateBackoff ==
  /\ ~backoff.called
  /\ backoff' = [backoff EXCEPT !.called = TRUE,
                                !.result = calculateBackoff(backoff.rateLimitInfo,
                                                            backoff.currentInterval,
                                                            backoff.consecutiveRateLimits)]
  /\ UNCHANGED <<build, probeSecret, resolveCalls, checks, rotationIndex, pc, req, dnsCache,
                 cookieStores, netLog, v4Error, dnsElapsed, inFlight, dnsResult, endCtx, fr,
                 frResult, lastEvent, result, reply, sample, verdict, validation>>

BackoffNext == CalculateBackoff

BackoffSpec == BackoffInit /\ [][BackoffNext]_vars

\* ------------------------------------------------------------------ claims
Responded == pc = "responded"
\* POST /check ran performHttpCheck and answered
HttpChecked == Responded /\ req.authOk /\ RouteOf(build, req) = "http"
\* followRedirects returned during the check
FrReturned == Responded /\ frResult # NoFrResult
ChainUrls(chain) == [i \in 1..Len(chain) |-> chain[i].url]
IsHopOp(o) == o.op = "hop"
HopRequestUrls == LET hops == SelectSeq(netLog, IsHopOp) IN [i \in 1..Len(hops) |-> hops[i].url]
HopRequestCount(url) == Cardinality({i \in 1..Len(netLog) : netLog[i] = Op("hop", url)})
IsRedirectHop(h) == h.statusCode \in REDIRECT_STATUS_CODES /\ h.location # NoLocation
LastHop(chain) == chain[Len(chain)]

\* C1: every HTTP check returns a result whose status is one of up, down,
\* degraded, dns_failure, whatever DNS, the request, the redirects and the
\* classification did; the status is never unset.
C1_StatusInTaxonomy == HttpChecked => result.status \in StatusTaxonomy
C1_Witness ==
  /\ HttpChecked
  /\ result.status = "degraded"
  /\ Len(result.redirectChain) >= 2

\* C2: when DNS resolution fails or the resolved IPs are flagged as hijacked,
\* the check ends at once with status dns_failure and a reason string, and
\* neither an HTTP request nor a cookie lookup is made for it.
DnsFailedOrHijacked == dnsResult # NoDns /\ (~dnsResult.success \/ dnsResult.hijacked)
C3_ExceptionsBecomeDown ==
  (Responded /\ req.authOk /\ RouteOf(build, req) # "bad") =>
    /\ reply.code = 200
    /\ reply.status \in StatusTaxonomy

\* C4: an HTTP check whose request (first request or redirect hop) fails with
\* a connection-level error has status down and the underlying error's message
\* as its error message, with or without expectedStatus.
C4_NetworkErrorIsDown ==
  (HttpChecked /\ lastEvent.kind = "error") =>
    /\ result.status = "down"
    /\ result.error = lastEvent.msg

\* C5: when a timeout fires (HTTP request, redirect hop, TCP connect) the
\* request / socket in flight is destroyed before the result is produced and
\* the check returns status down with a timeout message.
C5_TimeoutDestroysAndIsDown ==
  (Responded /\ lastEvent.kind = "timeout") =>
    /\ netLog # << >>
    /\ netLog[Len(netLog)].op = "destroy"
    /\ result.status = "down"
    /\ result.error \in {"Request timeout", "Connection timeout"}

\* C6: a malformed check request (unparseable URL, or neither url nor
\* host+port) is rejected with a bad-request answer before any network
\* operation is started; it is never answered with a check result.
Malformed(q) == q.url = BadUrl \/ (q.url = NoUrl /\ ~q.hostPort)
C6_MalformedRejected ==
  (req.authOk /\ Malformed(req)) =>
    /\ netLog = << >>
    /\ Responded => reply.code = 400

\* C7: in followRedirects, for every hop N from 1 to maxHops whose resolved
\* Location equals the URL of an earlier hop, the result has isLoop = true,
\* loopDetectedAt is that URL, the chain holds at most N hops and the looping
\* URL is not requested again.
C7_LoopDetectedAtEveryHop ==
  FrReturned =>
    \A n \in 1..Len(frResult.redirectChain) :
      LET chain == frResult.redirectChain
          target == resolveRedirectUrl(chain[n].url, chain[n].location)
      IN (IsRedirectHop(chain[n]) /\ target \in {chain[j].url : j \in 1..n}) =>
           /\ frResult.isLoop
           /\ frResult.loopDetectedAt = target
           /\ Len(chain) <= n
           /\ HopRequestCount(target) <= 1

\* C8: followRedirects never records more than maxHops hops; after maxHops
\* consecutive redirect answers with a Location it stops with
\* maxRedirectsExceeded = true and exactly maxHops hops recorded.
C8_HopsBoundedByMax ==
  /\ Len(fr.redirectChain) <= MAX_REDIRECTS
  /\ FrReturned =>
       LET chain == frResult.redirectChain
       IN /\ Len(chain) <= MAX_REDIRECTS
          /\ (Len(chain) = MAX_REDIRECTS /\ \A i \in 1..Len(chain) : IsRedirectHop(chain[i])) =>
               frResult.maxRedirectsExceeded
          /\ frResult.maxRedirectsExceeded => Len(chain) = MAX_REDIRECTS
C8_Witness ==
  /\ FrReturned
  /\ frResult.maxRedirectsExceeded
  /\ Len(frResult.redirectChain) = MAX_REDIRECTS

\* the check followed redirect hops down to a non-redirect final response
FollowedToFinal ==
  /\ HttpChecked /\ FrReturned
  /\ frResult.hasFinalResponse
  /\ frResult.finalResponse.error = NoStr
  /\ frResult.finalResponse.statusCode \notin REDIRECT_STATUS_CODES
  /\ Len(frResult.redirectChain) >= 2
\* the up/down decision the serving build takes on a response with this status
\* code that it receives without any redirect
DirectlyUp(code) ==
  IF build = ImplDns
    THEN EndCtx(code, NoHeaders, NoBody, 0, req, NoDns).status # "down"
  ELSE LET f == [FrInit(req.url) EXCEPT !.redirectChain = <<Hop(req.url, HopResponse(code, NoLocation, NoBody, 0))>>]
       IN TsAssemble(req, FrFinal(f, HopResponse(code, NoLocation, NoBody, 0))).status # "down"

\* C9: for a chain of redirect hops followed by a non-redirect final response
\* every hop is in redirectChain in request order, and the result's statusCode
\* and up/down decision are those of the final response, not of an
\* intermediate redirect.
C9_FinalResponseDecides ==
  FollowedToFinal =>
    /\ result.redirectChain = frResult.redirectChain
    /\ ChainUrls(result.redirectChain) = HopRequestUrls
    /\ result.statusCode = LastHop(frResult.redirectChain).statusCode
    /\ (result.status # "down") <=> DirectlyUp(LastHop(frResult.redirectChain).statusCode)
C9_Witness ==
  /\ FollowedToFinal
  /\ Len(result.redirectChain) = 3
  /\ result.redirectChain[1].statusCode = 301
  /\ result.redirectChain[2].statusCode = 302
  /\ result.redirectChain[3].statusCode = 200
  /\ result.status = "up"

\* C10: when redirect-following ends on a detected loop or on the hop limit,
\* the check still returns a normal result that carries the chain, the loop /
\* max-exceeded flag, and the status code of the last hop observed.
C10_LoopOrMaxStillReported ==
  (HttpChecked /\ FrReturned /\ (frResult.isLoop \/ frResult.maxRedirectsExceeded)) =>
    /\ reply.code = 200
    /\ result.redirectChain = frResult.redirectChain
    /\ result.isLoop = frResult.isLoop
    /\ result.maxRedirectsExceeded = frResult.maxRedirectsExceeded
    /\ result.statusCode = LastHop(frResult.redirectChain).statusCode

\* the last network event of the check was an HTTP response, and
\* redirect-following (if it ran) ended on that response
EndedOnResponse ==
  /\ HttpChecked
  /\ lastEvent.kind = "answer" /\ sample # NoSample
  /\ FrReturned => (frResult.hasFinalResponse /\ frResult.finalResponse.statusCode = sample.statusCode)
\* ... and that response is a redirect status without a Location header
EndedOnBareRedirect ==
  /\ EndedOnResponse
  /\ sample.statusCode \in REDIRECT_STATUS_CODES
  /\ FrReturned => frResult.noLocationHeader
\* the challenge-reachable rule applies to the last response
ChallengeRuleApplies ==
  /\ EndedOnBareRedirect
  /\ (BodyHasCfIndicator(sample.body) \/ sample.statusCode \in {302, 303})

\* C11: when the redirect chain ends on a redirect-status response without a
\* Location header, and the body of that response has a challenge-page
\* signature or the status is 302 or 303, the check is up (or degraded), never
\* down, and a non-null challengeInfo is attached.
C11_ChallengeIsReachable ==
  ChallengeRuleApplies =>
    /\ result.status \in {"up", "degraded"}
    /\ result.challengeInfo.detected

\* the expected-status rule as documented
MeetsExpected(statusCode, expectedStatus) ==
  LET expected == IF expectedStatus = NullStatus THEN 200 ELSE expectedStatus
  IN statusCode = expected \/ (expected = 200 /\ statusCode \in 200..299)

\* C12: when neither the redirect-is-up override nor the challenge-reachable
\* rule applies, an HTTP check is successful (up or degraded) if and only if
\* the final status code equals the expected status, or the expected status is
\* 200 (also by default) and the final status code is in [200, 300); otherwise
\* it is down.
C12_ExpectedStatusDecides ==
  (EndedOnResponse /\ ~ChallengeRuleApplies /\ ~req.treatRedirectsAsUp) =>
    IF MeetsExpected(sample.statusCode, req.expectedStatus)
      THEN result.status \in {"up", "degraded"}
    ELSE result.status = "down"

\* a check (HTTP or TCP) ran and was answered with its result
CheckAnswered ==
  /\ Responded /\ req.authOk /\ reply.code = 200
  /\ RouteOf(build, req) \in {"http", "tcp"}
\* every duration the check measured: DNS, first request (or TCP connect),
\* redirect hops
Elapsed ==
  IF RouteOf(build, req) = "tcp" THEN result.responseTimeMs
  ELSE dnsResult.responseTimeMs + endCtx.httpResponseTime
         + (IF FrReturned THEN frResult.totalRedirectTime ELSE 0)
OverThreshold == req.degradedThresholdMs # 0 /\ Elapsed > req.degradedThresholdMs

\* C13: on the HTTP and on the TCP path the status is degraded exactly when
\* the check would otherwise be up and its total elapsed time exceeds the
\* configured threshold; a check that failed (down, dns_failure) is never
\* degraded.
C13_DegradedIffSlowAndUp ==
  CheckAnswered =>
    /\ result.status = "degraded" => (OverThreshold /\ lastEvent.kind \in {"answer", "connect"})
    /\ result.status = "up" => ~OverThreshold

\* the end handler of the JavaScript probe ran for this check
EndHandlerRan == HttpChecked /\ build = ImplDns /\ endCtx # NoCtx
\* what the three classifiers report when they are asked about this check
PrimaryVerdict ==
  detectGeoBlocking(endCtx.statusCode, endCtx.responseHeaders, endCtx.body, endCtx.httpResponseTime)
GeoRedirectVerdict ==
  IF FrReturned THEN detectGeoRedirect(frResult.redirectChain) ELSE NoGeoRedirect
RateLimitVerdict == detectRateLimit(result.statusCode, endCtx.responseHeaders, endCtx.body)
SomeClassifierDetected ==
  \/ EndHandlerRan /\ (PrimaryVerdict.detected \/ GeoRedirectVerdict.detected \/ RateLimitVerdict.detected)
  \/ HttpChecked /\ build = ImplDns /\ endCtx = NoCtx /\ result.isGeoBlocked

\* C14: in every result of an HTTP check detectionMetadata is non-null if and
\* only if at least one classifier (primary chain, geo-redirect, rate-limit)
\* reported detected = true for the check; it is null on every other path.
C14_MetadataIffDetected ==
  (HttpChecked /\ reply.code = 200) => (result.detectionMetadata.present <=> SomeClassifierDetected)
C14_Witness ==
  /\ EndHandlerRan
  /\ ~PrimaryVerdict.detected /\ ~RateLimitVerdict.detected
  /\ GeoRedirectVerdict.detected
  /\ result.detectionMetadata.present

\* the verdicts of the chain in its fixed order
ChainVerdicts == <<verdict.cloudflare, verdict.waf, verdict.rateLimit, verdict.general>>
ChainHits == {i \in 1..4 : ChainVerdicts[i].detected}

\* C15: the primary verdict of detectGeoBlocking is the verdict of the first
\* classifier in the order CDN/challenge, WAF, rate-limit, generic that
\* detects; a later one never supplies it when an earlier one detects, and it
\* is detected = false only when none of the four detects.
C15_FirstClassifierWins ==
  verdict.classified =>
    IF ChainHits = {} THEN ~verdict.primary.detected
    ELSE \E i \in ChainHits :
           /\ \A j \in ChainHits : i <= j
           /\ verdict.primary = ChainVerdicts[i]
C15_Witness ==
  /\ verdict.classified
  /\ ChainHits = {2, 4}
  /\ verdict.primary.type = "waf"

\* C16: for every response with status 429, whatever its headers and even
\* with an empty body, the rate-limit classifier reports detected = true with
\* type 429_too_many_requests.
C16_Status429AlwaysRateLimited ==
  (verdict.classified /\ sample.statusCode = 429) =>
    /\ verdict.rateLimitInfo.detected
    /\ verdict.rateLimitInfo.type = "429_too_many_requests"

\* headers that name no CDN and no WAF vendor
NoVendorHeaders(headers) ==
  /\ ~IsCloudflare(HeadersLower(headers), NoBody)
  /\ WafVendor(HeadersLower(headers), NoBody) = 0
\* position of a vendor in WAF_PATTERNS
VendorIndex(provider) == CHOOSE i \in 1..Len(WAF_PATTERNS) : WAF_PATTERNS[i].provider = provider

\* C17: a 403 response with body "Access Denied - Sucuri Website Firewall"
\* (and no header naming a vendor) gets the primary verdict waf / sucuri from
\* the WAF classifier, although the generic classifier also finds a keyword in
\* the body; the WAF classifier detects only for statuses of the blocking
\* set, and its vendor is the first of the table whose signature matches.
C17_SucuriIsWafVerdict ==
  verdict.classified =>
    /\ (sample.statusCode = 403 /\ sample.body = BodySucuri /\ NoVendorHeaders(sample.headers)) =>
         /\ verdict.primary.type = "waf"
         /\ verdict.primary.wafProvider = "sucuri"
         /\ verdict.primary = verdict.waf
         /\ ~verdict.cloudflare.detected
    /\ verdict.waf.detected =>
         /\ sample.statusCode \in GEO_BLOCKING_STATUS_CODES
         /\ \A i \in 1..Len(WAF_PATTERNS) :
              WafVendorMatches(WAF_PATTERNS[i], HeadersLower(sample.headers), toLowerCase(sample.body))
                => VendorIndex(verdict.waf.wafProvider) <= i
C17_Witness ==
  /\ verdict.classified
  /\ sample.statusCode = 403 /\ sample.body = BodySucuri /\ sample.headers = NoHeaders
  /\ verdict.general.detected
  /\ verdict.primary.wafProvider = "sucuri"

\* the final response of the check is a bare 403: empty body, no headers
BareForbidden ==
  /\ EndedOnResponse
  /\ sample = Sample(403, NoHeaders, NoBody, sample.responseTime)
  /\ build = ImplDns => ~FrReturned

\* C18: a 403 response with an empty body, no geo keywords and no geo-block
\* or CDN headers is not classified as geo-blocked, however fast it came: the
\* result has isGeoBlocked = false and no geo-blocking indicators.
C18_BareForbiddenNotGeoBlocked ==
  BareForbidden =>
    /\ ~result.isGeoBlocked
    /\ result.geoBlockingIndicators = << >>

\* the CDN is in front of the origin, as documented: vendor header present or
\* vendor word in the body
CdnPresent ==
  \/ IsCloudflare(HeadersLower(sample.headers), toLowerCase(sample.body))
  \/ Includes(toLowerCase(sample.body), <<"cloudflare">>)
ChallengeMarker == FirstIncluded(CLOUDFLARE_PATTERNS, toLowerCase(sample.body)) # 0

\* C19: the CDN/challenge classifier detects exactly when the CDN is present
\* (vendor header, or vendor word in the body) and the body has a challenge
\* marker or the status is 403; CDN present, no marker and status 403 is a
\* firewall-rule block; any other status without a marker is not detected.
C19_CdnClassifier ==
  verdict.classified =>
    /\ verdict.cloudflare.detected <=> (CdnPresent /\ (ChallengeMarker \/ sample.statusCode = 403))
    /\ (CdnPresent /\ ~ChallengeMarker /\ sample.statusCode = 403) =>
         verdict.cloudflare.reason = "Cloudflare firewall block (possible geo-restriction)"

\* C20: the rate-limit verdict and the geo-redirect verdict are attached to
\* the result whenever their classifier detects, whether or not (and
\* whichever) primary classifier matched.
C20_SideChannelsNeverSuppressed ==
  EndHandlerRan =>
    /\ RateLimitVerdict.detected =>
         /\ result.rateLimitInfo = RateLimitVerdict
         /\ result.detectionMetadata.present
         /\ result.detectionMetadata.rateLimit = RateLimitVerdict
    /\ GeoRedirectVerdict.detected =>
         /\ result.detectionMetadata.present
         /\ result.detectionMetadata.geoRedirect = GeoRedirectVerdict
C20_Witness ==
  /\ EndHandlerRan
  /\ PrimaryVerdict.detected
  /\ RateLimitVerdict.detected
  /\ result.detectionMetadata.geoBlocking = PrimaryVerdict
  /\ result.detectionMetadata.rateLimit = RateLimitVerdict

\* C21: when the HTTP request fails with a network error whose message holds
\* a geo-blocking keyword or a WAF vendor signature, the classifier chain run
\* over the message detects: the result has isGeoBlocked = TRUE and a
\* detectionMetadata that is not null.
BlockingErrorTexts ==
  {m \in NetErrors : \/ FirstIncluded(GEO_BLOCKING_KEYWORDS, toLowerCase(m)) # 0
                     \/ WafVendor(NoHeaders, toLowerCase(m)) # 0}
FailedOnBlockingText ==
  /\ HttpChecked
  /\ lastEvent.kind = "error"
  /\ \E m \in BlockingErrorTexts : JoinWords(m) = lastEvent.msg
C21_ErrorTextIsClassified ==
  FailedOnBlockingText =>
    /\ result.isGeoBlocked
    /\ result.detectionMetadata # NoMetadata

\* C22: a DNS answer that holds a known sinkhole IP is reported with
\* hijacked = TRUE and is not stored; the DNS cache never holds an entry that
\* hijack detection flags for its hostname.
HoldsSinkhole(ips) == \E ip \in IpsOf(ips) : ip \in KNOWN_HIJACK_IPS
C22_HijackedNeverCached ==
  /\ (dnsResult.success /\ HoldsSinkhole(dnsResult.ips)) => dnsResult.hijacked
  /\ \A h \in DnsHostnames :
       dnsCache[h] # NoEntry =>
         /\ ~HoldsSinkhole(dnsCache[h].ips)
         /\ ~detectDnsHijacking(h, dnsCache[h].ips).hijacked
C22_Witness ==
  /\ dnsResult.success /\ HoldsSinkhole(dnsResult.ips)
  /\ ~dnsResult.cached
  /\ dnsCache[extractHostname(req.url)] = NoEntry
  /\ Len(netLog) = 1

\* C23: a lookup made by resolveDns is served from the cache (cached = TRUE,
\* responseTimeMs = 0, the cached ips, no resolver query, hijack check run on
\* them) exactly when the hostname has an entry not older than 60 s; any
\* other lookup leaves no entry behind (an older one is deleted) and issues the
\* IPv4 query, so no answer older than its TTL is returned.
LookupStep ==
  /\ pc = "idle" /\ pc' # "idle"
  /\ build = ImplDns /\ req'.authOk /\ RouteOf(build, req') = "http"
ServedFromCache(hostname, entry) ==
  /\ dnsResult'.success /\ dnsResult'.cached
  /\ dnsResult'.ips = entry.ips
  /\ dnsResult'.responseTimeMs = 0
  /\ dnsResult'.hijacked = detectDnsHijacking(hostname, entry.ips).hijacked
  /\ \A i \in 1..Len(netLog') : netLog'[i].op \notin {"dns4", "dns6"}
  /\ dnsCache' = dnsCache
ResolvedAfresh(hostname) ==
  /\ dnsCache'[hostname] = NoEntry
  /\ netLog' = <<Op("dns4", req'.url)>>
  /\ dnsResult' = NoDns
C23_CacheServesWithinTtl ==
  [][LookupStep =>
       LET hostname == extractHostname(req'.url)
           entry == dnsCache[hostname]
       IN IF entry # NoEntry /\ entry.age <= 60000
            THEN ServedFromCache(hostname, entry)
          ELSE ResolvedAfresh(hostname)]_vars
C23_Witness ==
  /\ pc = "http"
  /\ dnsResult.cached
  /\ dnsCache[extractHostname(req.url)].age = 60000

\* C24: resolveDns issues the IPv4 query first and the IPv6 query only after
\* the IPv4 attempt failed; when both fail it returns success = FALSE with the
\* message of the IPv4 error; whatever the resolver does it returns a result
\* object to its caller, which answers with a check result.
DnsQueries == SelectSeq(netLog, LAMBDA o : o.op \in {"dns4", "dns6"})
ResolveDnsReturned == dnsResult # NoDns /\ ~dnsResult.cached
C24_Ipv4FirstThenIpv6 ==
  /\ DnsQueries # << >> => DnsQueries[1].op = "dns4"
  /\ Len(DnsQueries) <= 2
  /\ Len(DnsQueries) = 2 => (DnsQueries[2].op = "dns6" /\ v4Error # NoStr)
  /\ pc = "dns6" => lastEvent.kind \in {"dnsfail", "dnstimeout"}
  /\ (ResolveDnsReturned /\ ~dnsResult.success) =>
       /\ Len(DnsQueries) = 2
       /\ dnsResult.error = v4Error
       /\ dnsResult.ips = NoIps
       /\ Responded /\ reply.code = 200 /\ result.status = "dns_failure"
C24_Witness ==
  /\ ResolveDnsReturned /\ ~dnsResult.success
  /\ dnsResult.error = "queryA ENOTFOUND"
  /\ lastEvent = Event("dnstimeout", DnsTimeoutError)

\* C25: when DNS resolution fails because the resolver did not answer within
\* the timeout T, the check ends with status dns_failure, without an HTTP
\* request, and the latency it reports is about T: at least T and less than
\* twice T.
DnsTimedOut ==
  /\ ResolveDnsReturned /\ ~dnsResult.success
  /\ (v4Error = DnsTimeoutError \/ lastEvent.kind = "dnstimeout")
C25_DnsTimeoutBoundsLatency ==
  DnsTimedOut =>
    /\ Responded /\ result.status = "dns_failure"
    /\ \A i \in 1..Len(netLog) : netLog[i].op \notin {"http", "hop"}
    /\ result.responseTimeMs >= DnsTimeout
    /\ result.responseTimeMs < 2 * DnsTimeout

\* C26: a TCP check makes no DNS query, no HTTP request, no cookie lookup and
\* no classification; it ends on the socket's connect, error or timeout; its
\* status is up (degraded when the latency exceeds the threshold) exactly when
\* the connection was established, down with the socket's error message when
\* the connect failed, down with a timeout message when the timer fired, and
\* the reported latency never exceeds the timeout.
TcpChecked == Responded /\ req.authOk /\ RouteOf(build, req) = "tcp"
C26_TcpStatusFromConnectOnly ==
  TcpChecked =>
    /\ \A i \in 1..Len(netLog) : netLog[i].op \in {"tcp", "destroy"}
    /\ dnsResult = NoDns
    /\ ~result.isGeoBlocked /\ result.detectionMetadata = NoMetadata
    /\ lastEvent.kind \in {"connect", "error", "timeout"}
    /\ lastEvent.kind = "connect" =>
         result.status = (IF Degraded(result.responseTimeMs, req.degradedThresholdMs)
                            THEN "degraded" ELSE "up")
    /\ lastEvent.kind = "error" => (result.status = "down" /\ result.error = lastEvent.msg)
    /\ lastEvent.kind = "timeout" =>
         (result.status = "down" /\ result.error = "Connection timeout")
    /\ result.responseTimeMs <= DefaultTcpTimeout

\* C27: the network operations of one check are strictly sequential: the
\* HTTP request is issued only after resolveDns has returned a successful
\* answer, a redirect hop only after the answer to the request before it, and
\* at no time are two operations of the check in flight.
IsHttpOp(o) == o.op \in {"http", "hop"}
C27_OneOperationInFlight ==
  /\ Cardinality(inFlight) <= 1
  /\ (\E i \in 1..Len(netLog) : netLog[i].op = "http") =>
       (dnsResult.success /\ ~dnsResult.hijacked)
  /\ Cardinality({o \in inFlight : IsHttpOp(o)}) <= 1
  /\ pc \in {"http", "hop"} => Awaited(pc, netLog) \subseteq inFlight

\* C28: within one check no request is repeated: every URL, the initial one
\* included, is requested at most once, the first request and the redirect
\* hops taken together; so a request that failed is never issued again.
HttpRequestsMade == SelectSeq(netLog, IsHttpOp)
C28_NoRequestRepeated ==
  \A i, j \in 1..Len(HttpRequestsMade) :
    HttpRequestsMade[i].url = HttpRequestsMade[j].url => i = j

\* C29: a cookie store idle for longer than its TTL is discarded by the next
\* access for its monitor: once a check has looked up the cookies of its
\* monitor, the monitor has no store older than its TTL, and no Cookie header
\* was taken from such a store.
CookiesLookedUp ==
  /\ pc \in {"http", "hop", "responded"}
  /\ \E i \in 1..Len(netLog) : netLog[i].op \in {"cookieGet", "cookieSend"}
C29_ExpiredStoreNeverServed ==
  CookiesLookedUp =>
    LET store == cookieStores[MonitorId]
    IN store.exists => store.idle <= store.ttl

\* C30: hash validation of a body whose hash differs from a given
\* expectedHash passes with exactly one warning and no error when
\* detectChanges is true, and fails with an error and no warning when
\* detectChanges is false or not set; a body whose hash is the expected one
\* passes with neither warning nor error.
HashValidated ==
  /\ validation.validated
  /\ validation.config.enabled /\ validation.config.type = "hash"
  /\ validation.config.expectedHash # NoStr
HashOfContent ==
  Digest(IF validation.config.algorithm = NoStr THEN "sha256" ELSE validation.config.algorithm,
         validation.content)
C30_HashChangeWarnsOrFails ==
  HashValidated =>
    LET r == validation.result
        differs == HashOfContent # validation.config.expectedHash
    IN /\ (differs /\ validation.config.detectChanges = "true") =>
            (r.passed /\ Len(r.warnings) = 1 /\ r.errors = << >>)
       /\ (differs /\ validation.config.detectChanges # "true") =>
            (~r.passed /\ Len(r.errors) = 1 /\ r.warnings = << >>)
       /\ ~differs => (r.passed /\ r.warnings = << >> /\ r.errors = << >>)
C30_Witness ==
  /\ HashValidated
  /\ HashOfContent # validation.config.expectedHash
  /\ validation.config.detectChanges = "true"
  /\ validation.config.algorithm = "md5"
  /\ validation.result.warnings # << >>

\* the reachability outcome of a result
Outcome(r) == <<r.status, r.statusCode, r.error>>
\* the request with content validation switched off
WithoutValidation(q) ==
  [q EXCEPT !.contentValidation = ValidationConfig(FALSE, NoStr, NoStr, NoStr, NoStr)]
\* the TypeScript probe answered an HTTP check
TsHttpAnswered == HttpChecked /\ build = ImplTs /\ frResult # NoFrResult

\* C31: content validation never alters the reachability outcome: for every
\* response and every validation config (failing, throwing, absent), status,
\* statusCode and errorMessage of the result are what they are without
\* content validation; the JavaScript probe, which never validates, leaves
\* the validation keys unset.
C31_ValidationKeepsOutcome ==
  /\ TsHttpAnswered =>
       /\ Outcome(result) = Outcome(TsAssemble(WithoutValidation(req), frResult))
       /\ [result EXCEPT !.contentValidated = NoStr, !.contentHash = NoStr,
                         !.validationErrors = << >>]
            = [TsAssemble(WithoutValidation(req), frResult)
                 EXCEPT !.contentValidated = NoStr, !.contentHash = NoStr,
                        !.validationErrors = << >>]
  /\ (HttpChecked /\ build = ImplDns /\ result # NoResult) =>
       (result.contentValidated = NoStr /\ result.validationErrors = << >>)
\* a 200 whose body fails the hash validation is reported up
C31_Witness ==
  /\ TsHttpAnswered
  /\ req.contentValidation.enabled
  /\ result.contentValidated = "false"
  /\ result.status = "up"
  /\ result.statusCode = 200

\* POST /check was sent without the header 'Bearer <shared secret>'
SentWithoutCredential == pc # "idle" /\ req.endpoint = "POST /check" /\ ~req.authOk
\* GET /health was sent (without any credential) and answered
HealthServed == Responded /\ req.endpoint = "GET /health"

\* C32: POST /check starts no check (no DNS, HTTP or TCP operation, no
\* result) unless the request carries 'Authorization: Bearer <shared
\* secret>' and answers every other request 401; GET /health is served
\* without any credential.
C32_NoCheckWithoutCredential ==
  /\ SentWithoutCredential =>
       (netLog = << >> /\ result = NoResult /\ reply = ReplyUnauthorized)
  /\ HealthServed => reply.code = 200

\* C33: when more than one completion event of the same HTTP request fires
\* (end, error, timeout, in any order, also while the end handler awaits
\* followRedirects), the check yields one result, that of the first handler
\* to call safeResolve: result and answer are never replaced afterwards.
C33_FirstResolveWins ==
  resolveCalls # << >> =>
    (result = resolveCalls[1].result /\ reply = ReplyResult(resolveCalls[1].result))
\* an error fired while the end handler awaited followRedirects, which then
\* came back with a different result
C33_Witness ==
  /\ Len(resolveCalls) >= 2
  /\ resolveCalls[1].event \in {"error", "timeout"}
  /\ resolveCalls[Len(resolveCalls)].event = "end"
  /\ frResult # NoFrResult
  /\ resolveCalls[Len(resolveCalls)].result.status = "up"
  /\ result.status = "down"

\* what resolveDns returns to a check that runs alone, given the DNS cache
\* the check found at its start and the resolver events it was called with
AloneDns(k) ==
  LET hostname == extractHostname(k.req.url)
      cachedIps == getCachedDns(k.startCache, hostname)
  IN IF cachedIps # NoIps THEN DnsCached(hostname, cachedIps)
     ELSE IF k.dns.kind = "answer" THEN DnsFresh(hostname, k.dns.ips, k.dns.ms)
     ELSE DnsFailed(k.dns.msg[1], k.dns.ms)
\* the result of that check, given the HTTP event it was called with
AloneResult(k) ==
  LET d == AloneDns(k)
  IN IF ~d.success THEN DnsFailureResult(d, k.req.url)
     ELSE IF d.hijacked THEN DnsHijackResult(d, k.req.url)
     ELSE IF k.http.kind = "answer"
       THEN EndResult(EndCtx(k.http.code, k.http.headers, k.http.body, k.http.ms, k.req, d),
                      d, k.req.url)
     ELSE HttpErrorResult(k.http.msg, k.http.ms, d, k.req.url)
\* a DNS cache entry is absent or whole: the addresses of one resolver answer
WholeEntry(entry) == entry = NoEntry \/ (entry.ips \in V4Answers \cup V6Answers /\ entry.age >= 0)
\* a cookie store is absent or whole: a jar with its TTL
WholeStore(store) == store = NoStore \/ (store.exists /\ store.ttl = CookieTtlSeconds * 1000)

LateSettled(o) ==
  /\ o \in Others /\ o.op \in {"dns4", "dns6"}
  /\ inFlight' = inFlight \ {o}
  /\ req' = req /\ pc' = pc
LateAnswerStep == \E o \in inFlight : LateSettled(o)

\* C35: a resolver answer that arrives after its timer has fired is
\* discarded: it is not what resolveDns returns and it is not written to the
\* DNS cache, whether it arrives while the IPv6 query is in flight or after
\* resolveDns has returned; the check goes on as if it had not arrived.
C35_LateAnswerDiscarded ==
  [][LateAnswerStep =>
       /\ dnsCache' = dnsCache
       /\ dnsResult' = dnsResult
       /\ result' = result /\ reply' = reply
       /\ netLog' = netLog /\ v4Error' = v4Error]_vars
\* the IPv4 query timed out and was settled by the resolver while the IPv6
\* query was in flight; nothing is cached and resolveDns has not returned
C35_Witness ==
  /\ pc = "dns6"
  /\ v4Error = DnsTimeoutError
  /\ inFlight = {Op("dns6", req.url)}
  /\ dnsCache[extractHostname(req.url)] = NoEntry
  /\ dnsResult = NoDns

\* an HTTP check with a degraded threshold returned a result
ThresholdChecked == HttpChecked /\ result # NoResult /\ req.degradedThresholdMs # 0

\* C36: whenever a degraded threshold is configured and the result of an
\* HTTP check has status up, the responseTimeMs of that result does not
\* exceed the threshold, also when redirects were followed and the status
\* was evaluated again.
C36_UpIsWithinThreshold ==
  (ThresholdChecked /\ result.status = "up") =>
    result.responseTimeMs <= req.degradedThresholdMs

RECURSIVE SumOfHopTimes(_)
SumOfHopTimes(chain) ==
  IF chain = << >> THEN 0
  ELSE chain[1].responseTimeMs + SumOfHopTimes(Tail(chain))
\* the chain ended on a non-redirect response or on a redirect without Location
ChainEndedOnResponse(r) == r.hasFinalResponse /\ ~r.isLoop /\ ~r.maxRedirectsExceeded
\* each hop after the first was requested at the target of the hop before it
InRequestOrder(chain, initialUrl) ==
  /\ chain # << >> => chain[1].url = initialUrl
  /\ \A i \in 1..(Len(chain) - 1) :
       /\ IsRedirectHop(chain[i])
       /\ chain[i + 1].url = resolveRedirectUrl(chain[i].url, chain[i].location)

\* C37: in every result of followRedirects the URLs of the recorded hops are
\* pairwise distinct and in the order the requests were made; when the chain
\* ends on a non-redirect response or on a redirect without Location,
\* redirectCount is the number of hops minus one and finalUrl is the URL of
\* the last hop; totalRedirectTime is the sum of the hops' responseTimeMs.
C37_ChainIsConsistent ==
  FrReturned =>
    LET chain == frResult.redirectChain
    IN /\ \A i, j \in 1..Len(chain) : chain[i].url = chain[j].url => i = j
       /\ InRequestOrder(chain, req.url)
       /\ SelectSeq(ChainUrls(chain), Parseable) = HopRequestUrls
       /\ ChainEndedOnResponse(frResult) =>
            /\ frResult.redirectCount = Len(chain) - 1
            /\ frResult.finalUrl = LastHop(chain).url
       /\ frResult.totalRedirectTime = SumOfHopTimes(chain)
\* followRedirects returned a final response after three hops that took
\* time, each at a different URL
C37_Witness ==
  /\ FrReturned
  /\ ChainEndedOnResponse(frResult)
  /\ Len(frResult.redirectChain) = 3
  /\ frResult.redirectCount = 2
  /\ \A i \in 1..3 : frResult.redirectChain[i].responseTimeMs > 0
  /\ frResult.totalRedirectTime > LastHop(frResult.redirectChain).responseTimeMs

\* the key=value pairs of the Set-Cookie headers that parse
CookiePairs(headers) ==
  {<<headers[i][1], headers[i][2]>> : i \in {j \in 1..Len(headers) : Len(headers[j]) = 2}}
\* a check that has sent its request
RequestSent(k) == k.pc \in {"http", "done"}
\* the cookies received so far in responses to the checks of monitor m
ReceivedBy(m) ==
  UNION {CookiePairs(checks[c].http.setCookie) :
           c \in {d \in DOMAIN checks : checks[d].pc = "done" /\ checks[d].req.monitorId = m}}
\* the Cookie header of each check lists only cookies its monitor received,
\* a check without cookies or without monitor sends none, and each jar
\* holds only cookies received by checks of its monitor that use cookies
CookiesIsolated ==
  /\ \A c \in DOMAIN checks :
       RequestSent(checks[c]) =>
         /\ checks[c].cookieHeaderValue \subseteq ReceivedBy(checks[c].req.monitorId)
         /\ ~UsesCookies(checks[c].req) => checks[c].cookieHeaderValue = NoCookieHeader
         /\ checks[c].cookieSent <=> checks[c].cookieHeaderValue # NoCookieHeader
  /\ \A m \in DOMAIN cookieStores :
       /\ {<<x.key, x.value>> : x \in cookieStores[m].jar} \subseteq ReceivedBy(m)
       /\ cookieStores[m] # NoStore =>
            \E c \in DOMAIN checks : /\ checks[c].pc = "done"
                                     /\ UsesCookies(checks[c].req)
                                     /\ checks[c].req.monitorId = m
                                     /\ checks[c].http.setCookie # NoSetCookie
\* a callback of a check that has cookies disabled or names no monitor
StepWithoutCookies ==
  \E c \in DOMAIN checks : checks'[c] # checks[c] /\ ~UsesCookies(checks'[c].req)

\* C38: cookies are isolated per monitor: after any sequence of checks the
\* Cookie header sent for a monitor lists only cookies received in
\* responses to checks of that monitor, and a check with cookies disabled
\* or without a monitor identity sends no stored cookie and leaves the
\* cookie stores as they are.
C38_CookiesIsolatedPerMonitor ==
  []CookiesIsolated /\ [][StepWithoutCookies => cookieStores' = cookieStores]_vars
\* monitor m1 stored sid=a and monitor m2 stored sid=b (its second header
\* did not parse); a later check of m1 sent exactly sid=a
C38_Witness ==
  /\ checks[1].pc = "done" /\ checks[1].req.monitorId = MonitorId
  /\ UsesCookies(checks[1].req) /\ checks[1].http.setCookie = <<SessionCookie>>
  /\ checks[2].pc = "done" /\ checks[2].req.monitorId = OtherMonitorId
  /\ checks[2].http.setCookie = <<RenewedCookie, GarbageCookie>>
  /\ RequestSent(checks[3]) /\ checks[3].req.monitorId = MonitorId
  /\ checks[3].cookieHeaderValue = {SessionCookie}
  /\ cookieStores[MonitorId].jar = {[key |-> "sid", value |-> "a", domain |-> StartUrl.host]}
  /\ cookieStores[OtherMonitorId].jar = {[key |-> "sid", value |-> "b", domain |-> StartUrl.host]}

\* C39: for every rateLimitInfo, currentInterval and consecutiveRateLimits
\* the backoffSeconds calculateBackoff returns is at most one hour (3600),
\* is not below currentInterval, and without a retryAfter does not decrease
\* when consecutiveRateLimits grows.
C39_BackoffCappedAndMonotone ==
  backoff.called =>
    /\ backoff.result.backoffSeconds # NaN
    /\ backoff.result.backoffSeconds <= 3600
    /\ backoff.result.backoffSeconds >= backoff.currentInterval
    /\ IsFalsy(backoff.rateLimitInfo.retryAfter) =>
         \A n \in BackoffCounts :
           n >= backoff.consecutiveRateLimits =>
             calculateBackoff(backoff.rateLimitInfo, backoff.currentInterval, n).backoffSeconds
               >= backoff.result.backoffSeconds

====
